---- MODULE Spec2Model ----
(***************************************************************************)
(* Model of the document redaction tool: the pattern detection engine     *)
(* (src/lib/patternDetector.ts) and the redaction engine                   *)
(* (src/unnamed/part_006).  Text is a sequence of one-character strings;   *)
(* string indices are 0-based as in JavaScript.                            *)
(***************************************************************************)
EXTENDS Integers, Sequences, FiniteSets, TLC

VARIABLES ocrResult,   \* the OCRResult handed to detectPII
          pc,          \* "ready" before the call, "returned" after it
          result,      \* the DetectionResult returned by detectPII
          history      \* the DetectionResults returned so far, call by call

VARIABLES file,        \* the File handed to applyRedactions
          detectionResult, \* the DetectionResult handed to applyRedactions
          rpc,         \* where the call of applyRedactions stands
          canvas,      \* the canvas of redactImage
          pdfDoc,      \* the PDFDocument of redactPDF
          redacted     \* how the promise of applyRedactions settled

VARIABLES isInitialized, \* OCRService.isInitialized: the worker exists
          opc,         \* where the call of extractText stands
          pageNum,     \* the page that extractTextFromPDF works on
          pages,       \* the pages that extractTextFromPDF has pushed
          extraction   \* how the promise of extractText settled

VARIABLES originalFile,    \* the File handed to handleFileAccepted
          hpc,             \* where the run of handleFileAccepted stands
          processingState, \* the state kept by processingReducer
          statuses,        \* the status after each dispatch of the run
          displayed        \* what ErrorDisplay shows: its error and errorConfig

VARIABLES objectUrls,  \* the object URLs that have not been revoked
          timeouts,    \* the callbacks scheduled with setTimeout, oldest first
          downloads,   \* what each click on the download link has delivered
          revocations  \* the URLs handed to URL.revokeObjectURL, call by call

detectorVars == <<ocrResult, pc, result, history>>
ocrVars == <<isInitialized, opc, pageNum, pages, extraction>>
appVars == <<originalFile, hpc, processingState, statuses, displayed>>
redactionVars == <<file, detectionResult, rpc, canvas, pdfDoc, redacted>>
browserVars == <<objectUrls, timeouts, downloads, revocations>>
vars == <<detectorVars, redactionVars, ocrVars, appVars, browserVars>>

Null == [null |-> TRUE]

(* No call of detectPII is under way. *)
DetectorIdle == ocrResult = Null /\ pc = "idle" /\ result = Null /\ history = <<>>

(* No call of extractText is under way. *)
OcrIdle ==
  /\ isInitialized = FALSE /\ opc = "idle" /\ pageNum = 0
  /\ pages = <<>> /\ extraction = Null

(* No file has been handed to the page. *)
AppIdle ==
  /\ originalFile = Null /\ hpc = "idle"
  /\ processingState = [status |-> "idle"] /\ statuses = <<>>
  /\ displayed = Null
  /\ objectUrls = {} /\ timeouts = <<>> /\ downloads = <<>> /\ revocations = <<>>

(* No call of applyRedactions is under way. *)
RedactionIdle ==
  /\ file = Null /\ detectionResult = Null /\ rpc = "idle"
  /\ canvas = Null /\ pdfDoc = Null /\ redacted = Null

-----------------------------------------------------------------------------
(* Character classes of the regular expressions.                           *)

UpperSeq == <<"A","B","C","D","E","F","G","H","I","J","K","L","M","N","O","P","Q","R","S","T","U","V","W","X","Y","Z">>
LowerSeq == <<"a","b","c","d","e","f","g","h","i","j","k","l","m","n","o","p","q","r","s","t","u","v","w","x","y","z">>

Digit == {"0","1","2","3","4","5","6","7","8","9"}
Upper == {UpperSeq[i] : i \in DOMAIN UpperSeq}
Lower == {LowerSeq[i] : i \in DOMAIN LowerSeq}
WordChar == Digit \cup Upper \cup Lower \cup {"_"}
WhiteSpace == {" ", "\t", "\n", "\r", "\f"}

(* String.prototype.toLowerCase, character by character. *)
ToLowerChar(c) ==
  IF c \in Upper THEN LowerSeq[CHOOSE i \in DOMAIN UpperSeq : UpperSeq[i] = c] ELSE c

toLowerCase(s) == [i \in DOMAIN s |-> ToLowerChar(s[i])]

(* String.prototype.substring(a, b) for 0 <= a <= b <= length. *)
substring(s, a, b) == SubSeq(s, a + 1, b)

(* String.prototype.includes: needle occurs somewhere in hay. *)
includes(hay, needle) ==
  \E i \in 0..(Len(hay) - Len(needle)) : substring(hay, i, i + Len(needle)) = needle

(* String.prototype.trim. *)
RECURSIVE trimStart(_)
trimStart(s) ==
  IF s # <<>> /\ Head(s) \in WhiteSpace THEN trimStart(Tail(s)) ELSE s

RECURSIVE trimEnd(_)
trimEnd(s) ==
  IF s # <<>> /\ s[Len(s)] \in WhiteSpace THEN trimEnd(SubSeq(s, 1, Len(s) - 1)) ELSE s

trim(s) == trimEnd(trimStart(s))

(* Array.prototype.join(' ') over a sequence of texts. *)
RECURSIVE join(_)
join(texts) ==
  IF texts = <<>> THEN <<>>
  ELSE IF Len(texts) = 1 THEN texts[1]
  ELSE texts[1] \o <<" ">> \o join(Tail(texts))

(* s.replace(/\D/g, ''): the digits of s, in order. *)
stripNonDigits(s) == SelectSeq(s, LAMBDA c : c \in Digit)

(* s.replace(/^91/, ''): drop one leading "91". *)
stripCountryCode(s) ==
  IF Len(s) >= 2 /\ s[1] = "9" /\ s[2] = "1" THEN SubSeq(s, 3, Len(s)) ELSE s

-----------------------------------------------------------------------------
(* Regular expressions: a pattern is a sequence of elements, each either   *)
(* the assertion \b or one character of a class, optional (greedy) or not. *)

WB == [kind |-> "b", set |-> {}, opt |-> FALSE]
One(S) == [kind |-> "c", set |-> S, opt |-> FALSE]
Opt(S) == [kind |-> "c", set |-> S, opt |-> TRUE]
Rep(e, n) == [i \in 1..n |-> e]

IsWordAt(text, i) == i >= 0 /\ i < Len(text) /\ text[i + 1] \in WordChar

(* \b holds at position i: exactly one of the neighbours is a word character. *)
AtWordBoundary(text, i) == IsWordAt(text, i - 1) # IsWordAt(text, i)

(* End position of the match of pat[k..] starting at position i, or -1.   *)
RECURSIVE MatchEnd(_, _, _, _)
MatchEnd(text, pat, k, i) ==
  IF k > Len(pat) THEN i
  ELSE IF pat[k].kind = "b"
       THEN IF AtWordBoundary(text, i) THEN MatchEnd(text, pat, k + 1, i) ELSE -1
  ELSE LET taken == IF i < Len(text) /\ text[i + 1] \in pat[k].set
                    THEN MatchEnd(text, pat, k + 1, i + 1)
                    ELSE -1
       IN IF pat[k].opt /\ taken = -1 THEN MatchEnd(text, pat, k + 1, i) ELSE taken

(* String.prototype.matchAll with a /g pattern: the non-overlapping        *)
(* matches from left to right, each with its index and matched text.       *)
(* starts holds the positions at which the pattern matches; the scan       *)
(* resumes at the end of each match (one further for an empty match).      *)
RECURSIVE matchAllFrom(_, _, _, _)
matchAllFrom(text, pat, starts, from) ==
  LET next == {i \in starts : i >= from}
  IN IF next = {} THEN <<>>
     ELSE LET s == CHOOSE i \in next : \A j \in next : i <= j
              e == MatchEnd(text, pat, 1, s)
          IN <<[index |-> s, text |-> substring(text, s, e)]>>
             \o matchAllFrom(text, pat, starts, IF e = s THEN s + 1 ELSE e)

matchAll(text, pat) ==
  matchAllFrom(text, pat, {i \in 0..Len(text) : MatchEnd(text, pat, 1, i) # -1}, 0)

-----------------------------------------------------------------------------
(* Geometry.                                                               *)


RECURSIVE Flatten(_)
Flatten(seqs) == IF seqs = <<>> THEN <<>> ELSE Head(seqs) \o Flatten(Tail(seqs))

MinOf(S) == CHOOSE m \in S : \A n \in S : m <= n
MaxOf(S) == CHOOSE m \in S : \A n \in S : m >= n

(* The box that encompasses all the given boxes. *)
mergeBoundingBoxes(boxes) ==
  IF Len(boxes) = 0 THEN [x |-> 0, y |-> 0, width |-> 0, height |-> 0]
  ELSE IF Len(boxes) = 1 THEN boxes[1]
  ELSE LET minX == MinOf({boxes[i].x : i \in DOMAIN boxes})
           minY == MinOf({boxes[i].y : i \in DOMAIN boxes})
           maxX == MaxOf({boxes[i].x + boxes[i].width : i \in DOMAIN boxes})
           maxY == MaxOf({boxes[i].y + boxes[i].height : i \in DOMAIN boxes})
       IN [x |-> minX, y |-> minY, width |-> maxX - minX, height |-> maxY - minY]

(* The token scan that stops once the offset has reached the start of the  *)
(* match instead of having passed its end.                                 *)
RECURSIVE involvedBlocksStoppingEarly(_, _, _, _, _)
involvedBlocksStoppingEarly(matchLen, matchIndex, textBlocks, k, currentIndex) ==
  IF k > Len(textBlocks) THEN <<>>
  ELSE LET blockStart == currentIndex
           blockEnd == currentIndex + Len(textBlocks[k].text)
           here == IF blockEnd > matchIndex /\ blockStart < matchIndex + matchLen
                   THEN <<textBlocks[k]>> ELSE <<>>
       IN here \o (IF blockEnd + 1 >= matchIndex THEN <<>>
                   ELSE involvedBlocksStoppingEarly(matchLen, matchIndex, textBlocks,
                                                    k + 1, blockEnd + 1))

(* The token scan of findBoundingBoxForMatch from block k on, with the     *)
(* running offset currentIndex; it stops once the offset has passed the    *)
(* end of the match.                                                       *)
RECURSIVE involvedBlocks(_, _, _, _, _)
involvedBlocks(matchLen, matchIndex, textBlocks, k, currentIndex) ==
  IF k > Len(textBlocks) THEN <<>>
  ELSE LET blockStart == currentIndex
           blockEnd == currentIndex + Len(textBlocks[k].text)
           here == IF blockEnd > matchIndex /\ blockStart < matchIndex + matchLen
                   THEN <<textBlocks[k]>> ELSE <<>>
       IN here \o (IF blockEnd + 1 > matchIndex + matchLen THEN <<>>
                   ELSE involvedBlocks(matchLen, matchIndex, textBlocks, k + 1, blockEnd + 1))

findBoundingBoxForMatch(matchedText, matchIndex, textBlocks, fullText) ==
  LET involved == involvedBlocks(Len(matchedText), matchIndex, textBlocks, 1, 0)
  IN IF Len(involved) = 0 THEN Null
     ELSE mergeBoundingBoxes([i \in DOMAIN involved |-> involved[i].bbox])

(* page.textBlocks.map(block => block.text).join(' ') *)
fullTextOf(page) == join([i \in DOMAIN page.textBlocks |-> page.textBlocks[i].text])

(* The detection pushed for a match, or nothing when it has no box. *)
detectionFor(type, conf, match, page) ==
  LET bbox == findBoundingBoxForMatch(match.text, match.index, page.textBlocks, fullTextOf(page))
  IN IF bbox # Null
     THEN <<[type |-> type, value |-> match.text, confidence |-> conf,
             bbox |-> bbox, pageNumber |-> page.pageNumber]>>
     ELSE <<>>

-----------------------------------------------------------------------------
(* Aadhaar numbers.                                                        *)

AadhaarConfidence == 90      \* 0.9, in hundredths

(* aadhaarPatterns without the space-separated form. *)
aadhaarPatternsNoSpaced ==
  << <<WB>> \o Rep(One(Digit), 12) \o <<WB>>,
     <<WB>> \o Rep(One(Digit), 4) \o <<One({"-"})>> \o Rep(One(Digit), 4)
            \o <<One({"-"})>> \o Rep(One(Digit), 4) \o <<WB>> >>

aadhaarPatterns ==
  << <<WB>> \o Rep(One(Digit), 12) \o <<WB>>,
     <<WB>> \o Rep(One(Digit), 4) \o <<One(WhiteSpace)>> \o Rep(One(Digit), 4)
            \o <<One(WhiteSpace)>> \o Rep(One(Digit), 4) \o <<WB>>,
     <<WB>> \o Rep(One(Digit), 4) \o <<One({"-"})>> \o Rep(One(Digit), 4)
            \o <<One({"-"})>> \o Rep(One(Digit), 4) \o <<WB>> >>

matchDetections(type, conf, pat, page) ==
  LET matches == matchAll(fullTextOf(page), pat)
  IN Flatten([m \in DOMAIN matches |-> detectionFor(type, conf, matches[m], page)])

detectAadhaar(ocr) ==
  Flatten([p \in DOMAIN ocr.pages |->
    Flatten([a \in DOMAIN aadhaarPatterns |->
      matchDetections("AADHAAR", AadhaarConfidence, aadhaarPatterns[a], ocr.pages[p])])])

-----------------------------------------------------------------------------
(* PAN numbers.                                                            *)

PanConfidence == 90          \* 0.9, in hundredths

(* panPattern with \w{4} in place of \d{4}. *)
panPatternWordDigits ==
  <<WB>> \o Rep(One(Upper), 5) \o Rep(One(WordChar), 4) \o <<One(Upper)>> \o <<WB>>

(* panPattern with four leading letters instead of five. *)
panPatternFourLetters ==
  <<WB>> \o Rep(One(Upper), 4) \o Rep(One(Digit), 4) \o <<One(Upper)>> \o <<WB>>

panPattern ==
  <<WB>> \o Rep(One(Upper), 5) \o Rep(One(Digit), 4) \o <<One(Upper)>> \o <<WB>>

detectPAN(ocr) ==
  Flatten([p \in DOMAIN ocr.pages |->
    matchDetections("PAN", PanConfidence, panPattern, ocr.pages[p])])

-----------------------------------------------------------------------------
(* Phone numbers.                                                          *)

PhoneConfidence == 85        \* 0.85, in hundredths

SpaceOrHyphen == WhiteSpace \cup {"-"}

phonePatterns ==
  << <<WB>> \o Rep(One(Digit), 10) \o <<WB>>,
     <<One({"+"}), One({"9"}), One({"1"}), Opt(SpaceOrHyphen)>> \o Rep(One(Digit), 10) \o <<WB>>,
     <<WB, One({"9"}), One({"1"}), One(SpaceOrHyphen)>> \o Rep(One(Digit), 10) \o <<WB>>,
     <<One({"("}), Opt({"+"}), One({"9"}), One({"1"}), One({")"}), Opt(SpaceOrHyphen)>>
            \o Rep(One(Digit), 10) \o <<WB>>,
     <<WB>> \o Rep(One(Digit), 5) \o <<One(SpaceOrHyphen)>> \o Rep(One(Digit), 5) \o <<WB>>,
     <<WB>> \o Rep(One(Digit), 3) \o <<One(SpaceOrHyphen)>> \o Rep(One(Digit), 3)
            \o <<One(SpaceOrHyphen)>> \o Rep(One(Digit), 4) \o <<WB>> >>

(* isValidMobile without the test of the leading digit. *)
isValidMobileAnyLead(digits) == Len(digits) = 10

(* digits.length === 10 && /^[6-9]/.test(digits) *)
isValidMobile(digits) == Len(digits) = 10 /\ digits[1] \in {"6", "7", "8", "9"}

(* The body of the match loops of one page: the matches of all patterns in *)
(* order, with the set detectedValues of normalized numbers seen so far.   *)
RECURSIVE phoneScan(_, _, _, _)
phoneScan(matches, k, detectedValues, page) ==
  IF k > Len(matches) THEN <<>>
  ELSE LET normalized == stripNonDigits(matches[k].text)
           digits == stripCountryCode(normalized)
       IN IF normalized \in detectedValues
          THEN phoneScan(matches, k + 1, detectedValues, page)
          ELSE IF isValidMobile(digits)
          THEN detectionFor("PHONE", PhoneConfidence, matches[k], page)
               \o phoneScan(matches, k + 1, detectedValues \cup {normalized}, page)
          ELSE phoneScan(matches, k + 1, detectedValues, page)

detectPhonePage(page) ==
  LET matches == Flatten([f \in DOMAIN phonePatterns |-> matchAll(fullTextOf(page), phonePatterns[f])])
  IN phoneScan(matches, 1, {}, page)

(* detectPhone with the set detectedValues kept from call to call: what an *)
(* earlier call has seen is skipped.                                       *)
detectPhoneKeepingValues(ocr) ==
  IF history = <<>>
  THEN Flatten([p \in DOMAIN ocr.pages |-> detectPhonePage(ocr.pages[p])])
  ELSE <<>>

detectPhone(ocr) == Flatten([p \in DOMAIN ocr.pages |-> detectPhonePage(ocr.pages[p])])

-----------------------------------------------------------------------------
(* Addresses.                                                              *)

AddressConfidence == 75      \* 0.75, in hundredths
ContextWindow == 200         \* characters inspected on each side of a PIN code

pinPattern == <<WB>> \o Rep(One(Digit), 6) \o <<WB>>

addressKeywords ==
  << <<"s","t","r","e","e","t">>, <<"r","o","a","d">>, <<"a","v","e","n","u","e">>,
     <<"l","a","n","e">>, <<"c","o","l","o","n","y">>, <<"s","e","c","t","o","r">>,
     <<"c","i","t","y">>, <<"t","o","w","n">>, <<"v","i","l","l","a","g","e">>,
     <<"d","i","s","t","r","i","c","t">>, <<"s","t","a","t","e">>, <<"p","i","n">>,
     <<"p","i","n","c","o","d","e">>, <<"p","o","s","t","a","l">>, <<"z","i","p">>,
     <<"a","d","d","r","e","s","s">>, <<"r","e","s","i","d","e","n","c","e">>, <<"h","o","u","s","e">>,
     <<"f","l","a","t">>, <<"a","p","a","r","t","m","e","n","t">>, <<"b","u","i","l","d","i","n","g">>,
     <<"b","l","o","c","k">>, <<"f","l","o","o","r">>, <<"n","a","g","a","r">>,
     <<"m","a","r","g">>, <<"g","a","l","i">>, <<"c","h","o","w","k">>,
     <<"p","u","r","a">>, <<"p","u","r">>, <<"g","a","n","j">> >>

(* addressKeywords.some(keyword => context.includes(keyword.toLowerCase())) *)
hasAddressKeyword(context) ==
  \E k \in DOMAIN addressKeywords : includes(context, toLowerCase(addressKeywords[k]))

(* Offset of block k in the text of the page: the running currentIndex.    *)
RECURSIVE blockStartOf(_, _)
blockStartOf(textBlocks, k) ==
  IF k = 1 THEN 0
  ELSE blockStartOf(textBlocks, k - 1) + Len(textBlocks[k - 1].text) + 1

(* The blocks that overlap the context window [contextStart, contextEnd].  *)
addressBlocksOf(textBlocks, contextStart, contextEnd) ==
  LET inWindow(k) ==
        /\ blockStartOf(textBlocks, k) + Len(textBlocks[k].text) >= contextStart
        /\ blockStartOf(textBlocks, k) <= contextEnd
  IN Flatten([k \in DOMAIN textBlocks |-> IF inWindow(k) THEN <<textBlocks[k]>> ELSE <<>>])

(* The body of the PIN loop for one match of pinPattern.                   *)
addressCandidate(pinMatch, page) ==
  LET fullText == fullTextOf(page)
      pinCode == pinMatch.text
      pinIndex == pinMatch.index
      contextStart == IF pinIndex - ContextWindow > 0 THEN pinIndex - ContextWindow ELSE 0
      contextEnd == IF Len(fullText) < pinIndex + Len(pinCode) + ContextWindow
                    THEN Len(fullText) ELSE pinIndex + Len(pinCode) + ContextWindow
      context == toLowerCase(substring(fullText, contextStart, contextEnd))
      addressBlocks == addressBlocksOf(page.textBlocks, contextStart, contextEnd)
      addressText == join([i \in DOMAIN addressBlocks |-> addressBlocks[i].text])
  IN IF hasAddressKeyword(context) /\ Len(addressBlocks) > 0
     THEN <<[type |-> "ADDRESS", value |-> trim(addressText),
             confidence |-> AddressConfidence,
             bbox |-> mergeBoundingBoxes([i \in DOMAIN addressBlocks |-> addressBlocks[i].bbox]),
             pageNumber |-> page.pageNumber]>>
     ELSE <<>>

calculateOverlapArea(box1, box2) ==
  LET x1 == IF box1.x > box2.x THEN box1.x ELSE box2.x
      y1 == IF box1.y > box2.y THEN box1.y ELSE box2.y
      x2 == IF box1.x + box1.width < box2.x + box2.width
            THEN box1.x + box1.width ELSE box2.x + box2.width
      y2 == IF box1.y + box1.height < box2.y + box2.height
            THEN box1.y + box1.height ELSE box2.y + box2.height
  IN IF x2 <= x1 \/ y2 <= y1 THEN 0 ELSE (x2 - x1) * (y2 - y1)

(* overlapArea > currentArea * 0.5 || overlapArea > otherArea * 0.5 *)
overlapsSignificantly(current, other) ==
  LET overlapArea == calculateOverlapArea(current.bbox, other.bbox)
      currentArea == current.bbox.width * current.bbox.height
      otherArea == other.bbox.width * other.bbox.height
  IN 2 * overlapArea > currentArea \/ 2 * overlapArea > otherArea

(* The inner loop of deduplicateAddresses for detection i, from j on:      *)
(* the indices marked used and the detection kept for i.                   *)
RECURSIVE dedupInner(_, _, _, _, _)
dedupInner(detections, i, j, used, bestDetection) ==
  IF j > Len(detections) THEN [used |-> used, bestDetection |-> bestDetection]
  ELSE LET current == detections[i]
           other == detections[j]
           currentArea == current.bbox.width * current.bbox.height
           otherArea == other.bbox.width * other.bbox.height
       IN IF j \in used \/ current.pageNumber # other.pageNumber
             \/ ~overlapsSignificantly(current, other)
          THEN dedupInner(detections, i, j + 1, used, bestDetection)
          ELSE dedupInner(detections, i, j + 1, used \cup {j},
                          IF otherArea > currentArea THEN other ELSE bestDetection)

RECURSIVE dedupOuter(_, _, _)
dedupOuter(detections, i, used) ==
  IF i > Len(detections) THEN <<>>
  ELSE IF i \in used THEN dedupOuter(detections, i + 1, used)
  ELSE LET r == dedupInner(detections, i, i + 1, used \cup {i}, detections[i])
       IN <<r.bestDetection>> \o dedupOuter(detections, i + 1, r.used)

deduplicateAddresses(detections) ==
  IF Len(detections) <= 1 THEN detections ELSE dedupOuter(detections, 1, {})

(* The candidates of all pages, before deduplication. *)
addressCandidates(ocr) ==
  Flatten([p \in DOMAIN ocr.pages |->
    LET pinMatches == matchAll(fullTextOf(ocr.pages[p]), pinPattern)
    IN Flatten([m \in DOMAIN pinMatches |-> addressCandidate(pinMatches[m], ocr.pages[p])])])

detectAddress(ocr) == deduplicateAddresses(addressCandidates(ocr))

-----------------------------------------------------------------------------
(* detectPII: the one operation of PatternDetector.                        *)

(* The value that detectPII(ocr) returns. *)
detectPIIOf(ocr) ==
  [aadhaarNumbers |-> detectAadhaar(ocr),
   panNumbers |-> detectPAN(ocr),
   phoneNumbers |-> detectPhone(ocr),
   addresses |-> detectAddress(ocr)]

detectPII ==
  /\ pc = "ready"
  /\ result' = detectPIIOf(ocrResult)
  /\ history' = Append(history, result')
  /\ pc' = "returned"
  /\ UNCHANGED <<ocrResult, redactionVars, ocrVars, appVars, browserVars>>

Next == detectPII

-----------------------------------------------------------------------------
(* Inputs: OCR results as the extraction stage builds them.  The words of  *)
(* a page are set left to right, two units per character and one space     *)
(* apart, on lines 20 high and 25 apart; a word that does not fit in the   *)
(* 800 wide page starts the next line.                                     *)

MaxPages == 2       \* pages of an OCR result
MaxBlocks == 3      \* text blocks of an OCR result, over all its pages

RECURSIVE placeBlocks(_, _, _, _)
placeBlocks(texts, k, x, y) ==
  IF k > Len(texts) THEN <<>>
  ELSE LET w == 2 * Len(texts[k])
           wrap == x > 10 /\ x + w > 790
           bx == IF wrap THEN 10 ELSE x
           by == IF wrap THEN y + 25 ELSE y
       IN <<[text |-> texts[k], confidence |-> 95,
             bbox |-> [x |-> bx, y |-> by, width |-> w, height |-> 20]]>>
          \o placeBlocks(texts, k + 1, bx + w + 2, by)

PageData(pageNumber, texts) ==
  [pageNumber |-> pageNumber, width |-> 800, height |-> 600,
   textBlocks |-> placeBlocks(texts, 1, 10, 10)]

(* The ways to write n blocks with texts from B on k pages. *)
RECURSIVE layouts(_, _, _)
layouts(B, k, n) ==
  IF k = 0 THEN (IF n = 0 THEN {<<>>} ELSE {})
  ELSE UNION {{Append(d, t) : d \in layouts(B, k - 1, n - m), t \in [1..m -> B]} : m \in 0..n}

OCRResult(d) == [pages |-> [p \in DOMAIN d |-> PageData(p, d[p])], success |-> TRUE]

(* The call detectPII(ocrResult) is about to be made on some OCR result    *)
(* with block texts from B.                                                *)
Init(B) ==
  /\ \E k \in 0..MaxPages : \E n \in 0..MaxBlocks : \E d \in layouts(B, k, n) :
       ocrResult = OCRResult(d)
  /\ pc = "ready"
  /\ result = Null
  /\ history = <<>>
  /\ RedactionIdle
  /\ OcrIdle
  /\ AppIdle

(* Block texts around 12-digit identifiers: 1234, 123456789012, 1234 5678 9012,
   1234-5678-9012, Aadhaar: *)
AadhaarTexts ==
  { <<"1","2","3","4">>,
    <<"1","2","3","4","5","6","7","8","9","0","1","2">>,
    <<"1","2","3","4"," ","5","6","7","8"," ","9","0","1","2">>,
    <<"1","2","3","4","-","5","6","7","8","-","9","0","1","2">>,
    <<"A","a","d","h","a","a","r",":">> }

InitAadhaar == Init(AadhaarTexts)
SpecAadhaar == InitAadhaar /\ [][Next]_vars

(* Block texts around 16-digit identifiers: 1234567890123456,
   1234 5678 9012 3456, 1234-5678-9012-3456, 1234, VID: *)
VidTexts ==
  { <<"1","2","3","4","5","6","7","8","9","0","1","2","3","4","5","6">>,
    <<"1","2","3","4"," ","5","6","7","8"," ","9","0","1","2"," ","3","4","5","6">>,
    <<"1","2","3","4","-","5","6","7","8","-","9","0","1","2","-","3","4","5","6">>,
    <<"1","2","3","4">>,
    <<"V","I","D",":">> }

InitVid == Init(VidTexts)
SpecVid == InitVid /\ [][Next]_vars

(* Block texts around PAN numbers: ABCDE1234F, abcde1234f, ABCDE12S4F,
   XABCDE1234F, PAN: *)
PanTexts ==
  { <<"A","B","C","D","E","1","2","3","4","F">>,
    <<"a","b","c","d","e","1","2","3","4","f">>,
    <<"A","B","C","D","E","1","2","S","4","F">>,
    <<"X","A","B","C","D","E","1","2","3","4","F">>,
    <<"P","A","N",":">> }

InitPan == Init(PanTexts)
SpecPan == InitPan /\ [][Next]_vars

(* Block texts around plain and prefixed mobile numbers: 9876543210,
   5876543210, 9123456789, +91, Phone: *)
PhoneTexts ==
  { <<"9","8","7","6","5","4","3","2","1","0">>,
    <<"5","8","7","6","5","4","3","2","1","0">>,
    <<"9","1","2","3","4","5","6","7","8","9">>,
    <<"+","9","1">>,
    <<"P","h","o","n","e",":">> }

(* Block texts around country codes and grouped mobile numbers: 91, (91),
   9876543210, 98765, 987-654-3210 *)
PhoneGroupTexts ==
  { <<"9","1">>,
    <<"(","9","1",")">>,
    <<"9","8","7","6","5","4","3","2","1","0">>,
    <<"9","8","7","6","5">>,
    <<"9","8","7","-","6","5","4","-","3","2","1","0">> }

InitPhone == Init(PhoneTexts) \/ Init(PhoneGroupTexts)

SpecPhone == InitPhone /\ [][Next]_vars

(* A word of n letters x. *)
Filler(n) == [i \in 1..n |-> "x"]

(* Block texts around PIN codes: 560001, 110001, pin, PIN: 560001, words of
   195 and 196 letters, and pin followed by 196 letters *)
AddressTexts ==
  { <<"5","6","0","0","0","1">>,
    <<"1","1","0","0","0","1">>,
    <<"p","i","n">>,
    <<"P","I","N",":"," ","5","6","0","0","0","1">>,
    Filler(195),
    Filler(196),
    <<"p","i","n">> \o Filler(196) }

InitAddress == Init(AddressTexts)
SpecAddress == InitAddress /\ [][Next]_vars

(* Block texts without digits: This is just regular text, Pincode, City,
   ABCDEFGHIJ, (+) -, and the empty text *)
ProseTexts ==
  { <<"T","h","i","s"," ","i","s"," ","j","u","s","t"," ","r","e","g","u","l","a","r"," ","t","e","x","t">>,
    <<"P","i","n","c","o","d","e",","," ","C","i","t","y">>,
    <<"A","B","C","D","E","F","G","H","I","J">>,
    <<"(","+",")"," ","-">>,
    <<>> }

InitProse == Init(ProseTexts)
SpecProse == InitProse /\ [][Next]_vars

-----------------------------------------------------------------------------
(* Vocabulary of the properties.                                           *)

Returned == pc = "returned"

Pages == {ocrResult.pages[p] : p \in DOMAIN ocrResult.pages}

(* Character at 0-based position i, or the empty string outside the text. *)
CharAt(text, i) == IF i >= 0 /\ i < Len(text) THEN text[i + 1] ELSE ""

(* [i, i+n) lies in the text and holds digits only. *)
DigitsAt(text, i, n) == \A j \in i..(i + n - 1) : CharAt(text, j) \in Digit

(* groups groups of size digits each, written from position i with the     *)
(* separator sep between them ("" for none).                               *)
GroupedAt(text, i, groups, size, sep) ==
  LET step == size + Len(sep)
  IN /\ \A g \in 0..(groups - 1) : DigitsAt(text, i + g * step, size)
     /\ \A g \in 0..(groups - 2) : substring(text, i + g * step + size, i + (g + 1) * step) = sep
     /\ i + groups * size + (groups - 1) * Len(sep) <= Len(text)

GroupedLen(groups, size, sep) == groups * size + (groups - 1) * Len(sep)

(* No word character on either side of [i, i+n). *)
WordBounded(text, i, n) == CharAt(text, i - 1) \notin WordChar /\ CharAt(text, i + n) \notin WordChar

(* A further digit group, set off by a space or a hyphen, on either side.  *)
AdjacentDigitGroup(text, i, n) ==
  \/ CharAt(text, i - 1) \in {" ", "-"} /\ CharAt(text, i - 2) \in Digit
  \/ CharAt(text, i + n) \in {" ", "-"} /\ CharAt(text, i + n + 1) \in Digit

Separators == {<<>>, <<" ">>, <<"-">>}

(* The positions where the text sub stands word-bounded in text. *)
OccurrencesOf(text, sub) ==
  {j \in 0..(Len(text) - Len(sub)) :
     substring(text, j, j + Len(sub)) = sub /\ WordBounded(text, j, Len(sub))}

DetectionsOf(list, pageNumber, value) ==
  {k \in DOMAIN list : list[k].pageNumber = pageNumber /\ list[k].value = value}

(* 12 digits in one of the three written forms stand at position i,        *)
(* word-bounded and with no digit group next to them.                      *)
Aadhaar12At(text, i, sep) ==
  /\ GroupedAt(text, i, 3, 4, sep)
  /\ WordBounded(text, i, GroupedLen(3, 4, sep))
  /\ ~AdjacentDigitGroup(text, i, GroupedLen(3, 4, sep))

(* C1: every 12-digit number written plainly, in 4-4-4 groups with spaces  *)
(* (in one token or over consecutive tokens) or in 4-4-4 groups with       *)
(* hyphens, word-bounded and with no digit group next to it, has exactly   *)
(* one AADHAAR detection: as many detections of its page carry its text as *)
(* the text has such occurrences on the page, each with confidence 0.9.    *)
C1_AadhaarDetected ==
  Returned =>
    \A page \in Pages : \A sep \in Separators :
      LET text == fullTextOf(page)
          n == GroupedLen(3, 4, sep)
      IN \A i \in 0..(Len(text) - n) :
           LET sub == substring(text, i, i + n)
               occ == OccurrencesOf(text, sub)
               dets == DetectionsOf(result.aadhaarNumbers, page.pageNumber, sub)
           IN (/\ Aadhaar12At(text, i, sep)
               /\ \A j \in occ : ~AdjacentDigitGroup(text, j, n))
              => /\ Cardinality(dets) = Cardinality(occ)
                 /\ \A k \in dets : /\ result.aadhaarNumbers[k].type = "AADHAAR"
                                    /\ result.aadhaarNumbers[k].confidence = 90

(* A spaced number spread over three tokens was detected once. *)
C1_Witness ==
  /\ Returned
  /\ \E page \in Pages :
       /\ Len(page.textBlocks) = 3
       /\ \A k \in 1..3 : Len(page.textBlocks[k].text) = 4
       /\ Aadhaar12At(fullTextOf(page), 0, <<" ">>)
       /\ Cardinality(DetectionsOf(result.aadhaarNumbers, page.pageNumber, fullTextOf(page))) = 1

(* The blocks of the page some character of [i, i+n) belongs to. *)
TokensOf(page, i, n) ==
  {k \in DOMAIN page.textBlocks :
     /\ blockStartOf(page.textBlocks, k) < i + n
     /\ blockStartOf(page.textBlocks, k) + Len(page.textBlocks[k].text) > i}

Encloses(outer, inner) ==
  /\ outer.x <= inner.x
  /\ outer.y <= inner.y
  /\ outer.x + outer.width >= inner.x + inner.width
  /\ outer.y + outer.height >= inner.y + inner.height

(* C2: every 16-digit identifier written as one run or as four groups of   *)
(* four with spaces or hyphens has exactly one AADHAAR detection whose     *)
(* digits are its 16 digits and whose box encloses every token that        *)
(* carries some of them.                                                   *)
C2_Aadhaar16Detected ==
  Returned =>
    \A page \in Pages : \A sep \in Separators :
      LET text == fullTextOf(page)
          n == GroupedLen(4, 4, sep)
      IN \A i \in 0..(Len(text) - n) :
           LET sub == substring(text, i, i + n)
               dets == {k \in DOMAIN result.aadhaarNumbers :
                          /\ result.aadhaarNumbers[k].pageNumber = page.pageNumber
                          /\ stripNonDigits(result.aadhaarNumbers[k].value) = stripNonDigits(sub)}
           IN (/\ GroupedAt(text, i, 4, 4, sep)
               /\ WordBounded(text, i, n)
               /\ ~AdjacentDigitGroup(text, i, n)
               /\ Cardinality(OccurrencesOf(text, sub)) = 1)
              => /\ Cardinality(dets) = 1
                 /\ \A k \in dets : \A b \in TokensOf(page, i, n) :
                      Encloses(result.aadhaarNumbers[k].bbox, page.textBlocks[b].bbox)

(* 5 letters, 4 digits, 1 letter at position i, the letters from Letters.  *)
PanShapeAt(text, i, Letters) ==
  /\ \A j \in 0..4 : CharAt(text, i + j) \in Letters
  /\ \A j \in 5..8 : CharAt(text, i + j) \in Digit
  /\ CharAt(text, i + 9) \in Letters

(* C3: a word-bounded string of 5 uppercase letters, 4 digits and 1        *)
(* uppercase letter that stands once in the text of a page has exactly one *)
(* PAN detection, with that value, confidence 0.90 and the page's number.  *)
C3_PanDetected ==
  Returned =>
    \A page \in Pages :
      LET text == fullTextOf(page)
      IN \A i \in 0..(Len(text) - 10) :
           LET sub == substring(text, i, i + 10)
               dets == DetectionsOf(result.panNumbers, page.pageNumber, sub)
           IN (/\ PanShapeAt(text, i, Upper)
               /\ WordBounded(text, i, 10)
               /\ Cardinality(OccurrencesOf(text, sub)) = 1)
              => /\ Cardinality(dets) = 1
                 /\ \A k \in dets : /\ result.panNumbers[k].type = "PAN"
                                    /\ result.panNumbers[k].confidence = 90

(* A PAN on the second page was detected with that page's number. *)
C3_Witness ==
  /\ Returned
  /\ Len(ocrResult.pages) = 2
  /\ PanShapeAt(fullTextOf(ocrResult.pages[2]), 0, Upper)
  /\ WordBounded(fullTextOf(ocrResult.pages[2]), 0, 10)
  /\ \E k \in DOMAIN result.panNumbers :
       /\ result.panNumbers[k].pageNumber = 2
       /\ result.panNumbers[k].value = substring(fullTextOf(ocrResult.pages[2]), 0, 10)

(* The OCR confusions undone in the digit positions of a PAN candidate. *)
ocrDigit(c) ==
  CASE c = "O" -> "0" [] c = "I" -> "1" [] c = "Z" -> "2" [] c = "S" -> "5"
    [] c = "B" -> "8" [] c = "G" -> "6" [] c = "T" -> "7" [] OTHER -> c

ToUpperChar(c) ==
  IF c \in Lower THEN UpperSeq[CHOOSE i \in DOMAIN LowerSeq : LowerSeq[i] = c] ELSE c

(* A 10-character candidate with its digit positions normalized and the    *)
(* other positions in upper case.                                          *)
normalizePan(s) ==
  [j \in 1..10 |-> IF j \in 6..9 THEN ocrDigit(ToUpperChar(s[j])) ELSE ToUpperChar(s[j])]

IsPan(s) == Len(s) = 10 /\ PanShapeAt(s, 0, Upper)

(* C4: a word-bounded 10-character alphanumeric run that is a PAN only     *)
(* after normalization is detected with the normalized value and           *)
(* confidence 0.75.                                                        *)
C4_FuzzyPanDetected ==
  Returned =>
    \A page \in Pages :
      LET text == fullTextOf(page)
      IN \A i \in 0..(Len(text) - 10) :
           LET sub == substring(text, i, i + 10)
           IN (/\ \A j \in 0..9 : CharAt(text, i + j) \in (WordChar \ {"_"})
               /\ WordBounded(text, i, 10)
               /\ ~PanShapeAt(text, i, Upper \cup Lower)
               /\ IsPan(normalizePan(sub)))
              => \E k \in DOMAIN result.panNumbers :
                   /\ result.panNumbers[k].pageNumber = page.pageNumber
                   /\ result.panNumbers[k].value = normalizePan(sub)
                   /\ result.panNumbers[k].confidence = 75

(* C5: a word-bounded PAN written in lower or mixed case is detected with  *)
(* confidence 0.90.                                                        *)
C5_PanCaseInsensitive ==
  Returned =>
    \A page \in Pages :
      LET text == fullTextOf(page)
      IN \A i \in 0..(Len(text) - 10) :
           (PanShapeAt(text, i, Upper \cup Lower) /\ WordBounded(text, i, 10))
           => \E k \in DOMAIN result.panNumbers :
                /\ result.panNumbers[k].pageNumber = page.pageNumber
                /\ toLowerCase(result.panNumbers[k].value) = toLowerCase(substring(text, i, i + 10))
                /\ result.panNumbers[k].confidence = 90

(* [a, b) is a whitespace-delimited word of the text. *)
IsWord(text, a, b) ==
  /\ a < b
  /\ \A j \in a..(b - 1) : CharAt(text, j) \notin WhiteSpace
  /\ (a = 0 \/ CharAt(text, a - 1) \in WhiteSpace)
  /\ (b = Len(text) \/ CharAt(text, b) \in WhiteSpace)

stripNonAlnum(s) == SelectSeq(s, LAMBDA c : c \in (WordChar \ {"_"}))

(* The 10-character windows of w that are a PAN after normalization. *)
PanWindows(w) == {o \in 0..(Len(w) - 10) : IsPan(normalizePan(substring(w, o, o + 10)))}

(* C6: a PAN fused to one or two alphanumeric characters in one            *)
(* whitespace-delimited word is detected, from the first 10-character      *)
(* window of the stripped word that matches after normalization, with      *)
(* confidence 0.65.                                                        *)
C6_AggressivePanDetected ==
  Returned =>
    \A page \in Pages :
      LET text == fullTextOf(page)
      IN \A a \in 0..Len(text) : \A b \in a..Len(text) :
           LET w == stripNonAlnum(substring(text, a, b))
           IN (IsWord(text, a, b) /\ Len(w) \in 11..12 /\ PanWindows(w) # {})
              => LET o == MinOf(PanWindows(w))
                 IN \E k \in DOMAIN result.panNumbers :
                      /\ result.panNumbers[k].pageNumber = page.pageNumber
                      /\ result.panNumbers[k].value = normalizePan(substring(w, o, o + 10))
                      /\ result.panNumbers[k].confidence = 65

(* Digit groups of the given sizes, written from position i with the       *)
(* separator sep between them.                                             *)
RECURSIVE GroupsAt(_, _, _, _)
GroupsAt(text, i, sizes, sep) ==
  \/ sizes = <<>>
  \/ /\ DigitsAt(text, i, Head(sizes))
     /\ \/ Len(sizes) = 1
        \/ /\ i + Head(sizes) + Len(sep) <= Len(text)
           /\ substring(text, i + Head(sizes), i + Head(sizes) + Len(sep)) = sep
           /\ GroupsAt(text, i + Head(sizes) + Len(sep), Tail(sizes), sep)

RECURSIVE GroupsLen(_, _)
GroupsLen(sizes, sep) ==
  IF Len(sizes) = 1 THEN Head(sizes) ELSE Head(sizes) + Len(sep) + GroupsLen(Tail(sizes), sep)

(* The ways to write the ten digits of a mobile number. *)
MobileForms ==
  {[sizes |-> <<10>>, sep |-> <<>>]}
  \cup {[sizes |-> z, sep |-> p] : z \in {<<5, 5>>, <<3, 3, 4>>}, p \in {<<" ">>, <<"-">>}}

MobileLead == {"6", "7", "8", "9"}

(* A mobile number in the form f at position i: it ends at a word boundary *)
(* and starts at one, or right after the country code +91.                 *)
MobileAt(text, i, f) ==
  /\ GroupsAt(text, i, f.sizes, f.sep)
  /\ CharAt(text, i) \in MobileLead
  /\ CharAt(text, i + GroupsLen(f.sizes, f.sep)) \notin WordChar
  /\ \/ CharAt(text, i - 1) \notin WordChar
     \/ (i >= 3 /\ substring(text, i - 3, i) = <<"+", "9", "1">>)

(* C7: every 10-digit mobile number with leading digit 6 to 9, written in  *)
(* any supported convention, has a PHONE detection of its page whose       *)
(* digits contain the number.                                              *)
C7_MobileDetected ==
  Returned =>
    \A page \in Pages : \A f \in MobileForms :
      LET text == fullTextOf(page)
          n == GroupsLen(f.sizes, f.sep)
      IN \A i \in 0..(Len(text) - n) :
           MobileAt(text, i, f)
           => \E k \in DOMAIN result.phoneNumbers :
                /\ result.phoneNumbers[k].pageNumber = page.pageNumber
                /\ includes(stripNonDigits(result.phoneNumbers[k].value),
                            stripNonDigits(substring(text, i, i + n)))

(* The digits of a detected value without a leading country code 91. *)
NationalNumber(value) ==
  LET d == SelectSeq(value, LAMBDA c : c \in Digit)
  IN IF Len(d) >= 2 /\ SubSeq(d, 1, 2) = <<"9", "1">> THEN SubSeq(d, 3, Len(d)) ELSE d

(* The digits of the text are one run of ten that begins with 0 to 5. *)
OnlyInvalidMobile(text) ==
  \E i \in 0..(Len(text) - 10) :
    /\ DigitsAt(text, i, 10)
    /\ CharAt(text, i) \in {"0", "1", "2", "3", "4", "5"}
    /\ \A j \in 0..(Len(text) - 1) : CharAt(text, j) \in Digit => j \in i..(i + 9)

(* C8: every PHONE detection has confidence 0.85 and a value whose digits, *)
(* without a leading 91, are ten digits beginning with 6 to 9; a page      *)
(* whose only digit run is a 10-digit number beginning with 0 to 5 has no  *)
(* PHONE detection.                                                        *)
C8_PhoneValid ==
  Returned =>
    /\ \A k \in DOMAIN result.phoneNumbers :
         /\ result.phoneNumbers[k].type = "PHONE"
         /\ result.phoneNumbers[k].confidence = 85
         /\ Len(NationalNumber(result.phoneNumbers[k].value)) = 10
         /\ NationalNumber(result.phoneNumbers[k].value)[1] \in MobileLead
    /\ \A page \in Pages :
         OnlyInvalidMobile(fullTextOf(page))
         => \A k \in DOMAIN result.phoneNumbers :
              result.phoneNumbers[k].pageNumber # page.pageNumber

(* A number with its country code was detected on one page and a number    *)
(* beginning with 5, alone on another page, was not.                       *)
C8_Witness ==
  /\ Returned
  /\ \E k \in DOMAIN result.phoneNumbers :
       Len(SelectSeq(result.phoneNumbers[k].value, LAMBDA c : c \in Digit)) = 12
  /\ \E page \in Pages : OnlyInvalidMobile(fullTextOf(page))

(* The word kw stands in the lower-cased text within 200 characters before *)
(* and after the six characters at position i.                             *)
KeywordNear(text, i, kw) ==
  LET lo == IF i - 200 > 0 THEN i - 200 ELSE 0
      hi == IF i + 6 + 200 < Len(text) THEN i + 6 + 200 ELSE Len(text)
  IN \E j \in lo..(hi - Len(kw)) : toLowerCase(substring(text, j, j + Len(kw))) = kw

(* A word-bounded 6-digit run at position i with an address keyword near. *)
PinWithKeywordAt(text, i) ==
  /\ DigitsAt(text, i, 6)
  /\ WordBounded(text, i, 6)
  /\ \E w \in DOMAIN addressKeywords : KeywordNear(text, i, addressKeywords[w])

(* C9: a page has an ADDRESS detection exactly if its text has a           *)
(* word-bounded 6-digit run with an address keyword within 200 characters; *)
(* each such run is contained in the value of some ADDRESS detection of    *)
(* the page; every ADDRESS detection has confidence 0.75.                  *)
C9_AddressDetected ==
  Returned =>
    /\ \A page \in Pages :
         LET text == fullTextOf(page)
             pins == {i \in 0..(Len(text) - 6) : PinWithKeywordAt(text, i)}
             dets == {k \in DOMAIN result.addresses :
                        result.addresses[k].pageNumber = page.pageNumber}
         IN /\ (dets # {}) <=> (pins # {})
            /\ \A i \in pins : \E k \in dets :
                 includes(result.addresses[k].value, substring(text, i, i + 6))
    /\ \A k \in DOMAIN result.addresses :
         /\ result.addresses[k].type = "ADDRESS"
         /\ result.addresses[k].confidence = 75

NoDigits ==
  \A page \in Pages : \A b \in DOMAIN page.textBlocks :
    \A c \in DOMAIN page.textBlocks[b].text : page.textBlocks[b].text[c] \notin Digit

EmptyResult ==
  [aadhaarNumbers |-> <<>>, panNumbers |-> <<>>, phoneNumbers |-> <<>>, addresses |-> <<>>]

(* C10: on an OCR result in which no token text has a digit (the empty     *)
(* page list and pages without tokens included), the call of detectPII     *)
(* ends in no other way than by returning, and it returns four empty       *)
(* lists.                                                                  *)
C10_NoFalsePositives ==
  NoDigits =>
    /\ pc \in {"ready", "returned"}
    /\ Returned => result = EmptyResult

(* detectPII returned on a page of digit-free tokens that name an address  *)
(* keyword and ten capital letters in a row.                               *)
C10_Witness ==
  /\ Returned
  /\ NoDigits
  /\ \E page \in Pages :
       /\ Len(page.textBlocks) >= 2
       /\ hasAddressKeyword(toLowerCase(fullTextOf(page)))
       /\ \E i \in 0..(Len(fullTextOf(page)) - 10) :
            \A j \in 0..9 : CharAt(fullTextOf(page), i + j) \in Upper
  /\ result = EmptyResult


-----------------------------------------------------------------------------
(* Geometry of the detections.                                             *)

(* Block texts around a PIN code whose window begins right after a one-    *)
(* letter word: x, pin followed by 195 letters, 560001, 1234 5678 9012,    *)
(* 9876543210 *)
GeometryTexts ==
  { <<"x">>,
    <<"p","i","n">> \o Filler(195),
    <<"5","6","0","0","0","1">>,
    <<"1","2","3","4"," ","5","6","7","8"," ","9","0","1","2">>,
    <<"9","8","7","6","5","4","3","2","1","0">> }

InitGeometry == Init(GeometryTexts)
SpecGeometry == InitGeometry /\ [][Next]_vars

AllDetections ==
  IF Returned
  THEN {result.aadhaarNumbers[k] : k \in DOMAIN result.aadhaarNumbers}
       \cup {result.panNumbers[k] : k \in DOMAIN result.panNumbers}
       \cup {result.phoneNumbers[k] : k \in DOMAIN result.phoneNumbers}
       \cup {result.addresses[k] : k \in DOMAIN result.addresses}
  ELSE {}

(* The tokens whose half-open range [tokenStart, tokenEnd) meets [a, b). *)
Intersecting(page, a, b) ==
  {k \in DOMAIN page.textBlocks :
     LET tokenStart == blockStartOf(page.textBlocks, k)
         tokenEnd == tokenStart + Len(page.textBlocks[k].text)
         lo == IF tokenStart > a THEN tokenStart ELSE a
         hi == IF tokenEnd < b THEN tokenEnd ELSE b
     IN lo < hi}

(* The tightest axis-aligned box around the tokens S of the page. *)
TightBox(page, S) ==
  LET box(k) == page.textBlocks[k].bbox
      minX == MinOf({box(k).x : k \in S})
      minY == MinOf({box(k).y : k \in S})
  IN [x |-> minX, y |-> minY,
      width |-> MaxOf({box(k).x + box(k).width : k \in S}) - minX,
      height |-> MaxOf({box(k).y + box(k).height : k \in S}) - minY]

(* The range of the text that detection d stands for starts at i: the      *)
(* matched value for the identifiers, the window of 200 characters to      *)
(* either side of a 6-digit run with a keyword for an address.             *)
RangeOf(d, text, i) ==
  IF d.type = "ADDRESS"
  THEN IF i + 6 <= Len(text) /\ PinWithKeywordAt(text, i)
       THEN <<IF i - 200 > 0 THEN i - 200 ELSE 0,
              IF i + 6 + 200 < Len(text) THEN i + 6 + 200 ELSE Len(text)>>
       ELSE <<0, 0>>
  ELSE IF substring(text, i, i + Len(d.value)) = d.value /\ i + Len(d.value) <= Len(text)
       THEN <<i, i + Len(d.value)>>
       ELSE <<0, 0>>

TightAround(d, page) ==
  \E i \in 0..Len(fullTextOf(page)) :
    LET r == RangeOf(d, fullTextOf(page), i)
        S == Intersecting(page, r[1], r[2])
    IN S # {} /\ d.bbox = TightBox(page, S)

(* C11: every detection's box has non-negative x, y, width and height and  *)
(* is the tightest box around exactly the tokens whose range meets the     *)
(* range of the match (for an address, the window around the 6-digit run). *)
C11_GeometrySound ==
  \A d \in AllDetections : \A page \in Pages :
    page.pageNumber = d.pageNumber =>
      /\ d.bbox.x >= 0 /\ d.bbox.y >= 0 /\ d.bbox.width >= 0 /\ d.bbox.height >= 0
      /\ TightAround(d, page)

(* The same for the identifiers alone (Aadhaar, PAN, phone). *)
IdentifierGeometrySound ==
  \A d \in AllDetections : \A page \in Pages :
    (page.pageNumber = d.pageNumber /\ d.type # "ADDRESS") =>
      /\ d.bbox.x >= 0 /\ d.bbox.y >= 0 /\ d.bbox.width >= 0 /\ d.bbox.height >= 0
      /\ TightAround(d, page)


-----------------------------------------------------------------------------
(* The redaction engine (src/unnamed/part_006).  A pixel is a grey level v  *)
(* with an alpha a; a picture is a width, a height and its pixels by <<x,   *)
(* y>> from the top left.                                                   *)

OpaqueBlack == [v |-> 0, a |-> 255]       \* fillStyle 'rgb(0, 0, 0)'
Transparent == [v |-> 0, a |-> 0]         \* a fresh canvas

PixelsOf(width, height) == (0..(width - 1)) \X (0..(height - 1))

(* document.createElement('canvas') with canvas.width and canvas.height set *)
createCanvas(width, height) ==
  [width |-> width, height |-> height,
   pixels |-> [p \in PixelsOf(width, height) |-> Transparent]]

(* ctx.drawImage(img, 0, 0) on a fresh canvas of the picture's size. *)
drawImage(cv, img) ==
  [cv EXCEPT !.pixels = [p \in DOMAIN cv.pixels |->
     IF p \in DOMAIN img.pixels THEN img.pixels[p] ELSE cv.pixels[p]]]

(* ctx.fillRect(x, y, width, height) with an opaque fill style: the pixels  *)
(* of the rectangle are replaced; what lies outside the canvas is clipped.  *)
fillRect(cv, x, y, width, height) ==
  LET left == IF width >= 0 THEN x ELSE x + width
      right == IF width >= 0 THEN x + width ELSE x
      top == IF height >= 0 THEN y ELSE y + height
      bottom == IF height >= 0 THEN y + height ELSE y
  IN [cv EXCEPT !.pixels = [p \in DOMAIN cv.pixels |->
       IF p[1] >= left /\ p[1] < right /\ p[2] >= top /\ p[2] < bottom
       THEN OpaqueBlack ELSE cv.pixels[p]]]

(* [...aadhaarNumbers, ...panNumbers, ...phoneNumbers, ...addresses] *)
allDetections(dets) ==
  dets.aadhaarNumbers \o dets.panNumbers \o dets.phoneNumbers \o dets.addresses

(* The loop of fillRect calls over the detections from the k-th on. *)
RECURSIVE fillAll(_, _, _)
fillAll(cv, list, k) ==
  IF k > Len(list) THEN cv
  ELSE fillAll(fillRect(cv, list[k].bbox.x, list[k].bbox.y,
                        list[k].bbox.width, list[k].bbox.height), list, k + 1)

(* The picture that img.onload leaves on the canvas. *)
paintedCanvas(img, dets) ==
  fillAll(drawImage(createCanvas(img.width, img.height), img),
          SelectSeq(allDetections(dets), LAMBDA d : d.pageNumber = 1), 1)

(* JPEG has no alpha and is lossy: a pixel is set on black, and the detail  *)
(* within a coding cell (here two pixels side by side) is lost to the       *)
(* cell's mean.                                                             *)
jpegPixels(cv) ==
  LET flat(p) == (cv.pixels[p].v * cv.pixels[p].a) \div 255
      cell(p) == {q \in DOMAIN cv.pixels : q[2] = p[2] /\ q[1] \div 2 = p[1] \div 2}
      sum(p) == flat(<<2 * (p[1] \div 2), p[2]>>)
                + (IF Cardinality(cell(p)) = 2 THEN flat(<<2 * (p[1] \div 2) + 1, p[2]>>) ELSE 0)
  IN [p \in DOMAIN cv.pixels |-> [v |-> sum(p) \div Cardinality(cell(p)), a |-> 255]]

(* canvas.toBlob(callback, type): PNG and JPEG are the encodings of a      *)
(* canvas; any other type falls back to PNG.                               *)
toBlob(cv, type) ==
  IF type = "image/jpeg"
  THEN [format |-> "image/jpeg", width |-> cv.width, height |-> cv.height,
        pixels |-> jpegPixels(cv)]
  ELSE [format |-> "image/png", width |-> cv.width, height |-> cv.height,
        pixels |-> cv.pixels]

(* mimeType.startsWith('image/') *)
startsWithImage(mimeType) ==
  mimeType \in {"image/png", "image/jpeg", "image/jpg", "image/gif", "image/svg+xml"}

(* The rectangle drawn on a page of the given height for one detection. *)
pdfRectangleUnflipped(d, height) ==
  [x |-> d.bbox.x, y |-> d.bbox.y, width |-> d.bbox.width, height |-> d.bbox.height,
   color |-> <<0, 0, 0>>, opacity |-> 1]

pdfRectangle(d, height) ==
  [x |-> d.bbox.x, y |-> height - d.bbox.y - d.bbox.height,
   width |-> d.bbox.width, height |-> d.bbox.height,
   color |-> <<0, 0, 0>>, opacity |-> 1]

(* The pages after the drawing loop: page p gets a rectangle for each      *)
(* detection grouped under page number p, in the order of the detections;  *)
(* groups under a page number without a page are skipped.                  *)
drawRectangles(pdfPages, dets) ==
  [p \in DOMAIN pdfPages |->
     LET pageDetections == SelectSeq(allDetections(dets), LAMBDA d : d.pageNumber = p)
     IN [pdfPages[p] EXCEPT !.rectangles =
           @ \o [k \in DOMAIN pageDetections |-> pdfRectangle(pageDetections[k], pdfPages[p].height)]]]

(* The bytes are a PDF document that PDFDocument.load accepts. *)
IsOpenPdf(content) == content.kind = "pdf" /\ ~content.encrypted

Rejected(message) == [status |-> "rejected", error |-> message]

(* applyRedactions(file, detections): the routing on file.type. *)
applyRedactions ==
  /\ rpc = "called"
  /\ IF file.type = "application/pdf"
     THEN rpc' = "redactPDF" /\ UNCHANGED redacted
     ELSE IF startsWithImage(file.type)
     THEN rpc' = "readAsDataURL" /\ UNCHANGED redacted
     ELSE rpc' = "settled" /\ redacted' = Rejected("Unsupported file type")
  /\ UNCHANGED <<file, detectionResult, canvas, pdfDoc, detectorVars, ocrVars, appVars, browserVars>>

(* reader.onload: the data URL becomes the source of the image element. *)
readerOnload ==
  /\ rpc = "readAsDataURL"
  /\ file.content.kind # "unreadable"
  /\ rpc' = "imgLoading"
  /\ UNCHANGED <<file, detectionResult, canvas, pdfDoc, redacted, detectorVars, ocrVars, appVars, browserVars>>

(* reader.onerror *)
readerOnerror ==
  /\ rpc = "readAsDataURL"
  /\ file.content.kind = "unreadable"
  /\ rpc' = "settled"
  /\ redacted' = Rejected("Failed to read file")
  /\ UNCHANGED <<file, detectionResult, canvas, pdfDoc, detectorVars, ocrVars, appVars, browserVars>>

(* img.onload with a 2d context: draw, paint, ask for the blob. *)
imgOnload ==
  /\ rpc = "imgLoading"
  /\ file.content.kind = "image"
  /\ canvas' = paintedCanvas(file.content.image, detectionResult)
  /\ rpc' = "toBlob"
  /\ UNCHANGED <<file, detectionResult, pdfDoc, redacted, detectorVars, ocrVars, appVars, browserVars>>

(* img.onload when canvas.getContext('2d') yields null. *)
imgOnloadNoContext ==
  /\ rpc = "imgLoading"
  /\ file.content.kind = "image"
  /\ rpc' = "settled"
  /\ redacted' = Rejected("Failed to get canvas context")
  /\ UNCHANGED <<file, detectionResult, canvas, pdfDoc, detectorVars, ocrVars, appVars, browserVars>>

(* img.onerror: the bytes are not a picture. *)
imgOnerror ==
  /\ rpc = "imgLoading"
  /\ file.content.kind # "image"
  /\ rpc' = "settled"
  /\ redacted' = Rejected("Failed to load image")
  /\ UNCHANGED <<file, detectionResult, canvas, pdfDoc, detectorVars, ocrVars, appVars, browserVars>>

(* The callback of canvas.toBlob with a blob. *)
toBlobCallback ==
  /\ rpc = "toBlob"
  /\ rpc' = "settled"
  /\ redacted' = [status |-> "resolved", blob |-> toBlob(canvas, file.type),
                  mimeType |-> file.type, previewUrl |-> "blob:"]
  /\ UNCHANGED <<file, detectionResult, canvas, pdfDoc, detectorVars, ocrVars, appVars, browserVars>>

(* The callback of canvas.toBlob without a blob. *)
toBlobCallbackNull ==
  /\ rpc = "toBlob"
  /\ rpc' = "settled"
  /\ redacted' = Rejected("Failed to create blob from canvas")
  /\ UNCHANGED <<file, detectionResult, canvas, pdfDoc, detectorVars, ocrVars, appVars, browserVars>>

(* redactPDF up to the call of save: read, load, draw. *)
redactPDFDraw ==
  /\ rpc = "redactPDF"
  /\ IsOpenPdf(file.content)
  /\ pdfDoc' = [pages |-> drawRectangles(
                  [p \in DOMAIN file.content.pages |->
                     [width |-> file.content.pages[p].width,
                      height |-> file.content.pages[p].height,
                      rectangles |-> <<>>]], detectionResult)]
  /\ rpc' = "save"
  /\ UNCHANGED <<file, detectionResult, canvas, redacted, detectorVars, ocrVars, appVars, browserVars>>

(* file.arrayBuffer() or PDFDocument.load throws (it does for an encrypted *)
(* document).                                                              *)
redactPDFLoadFails ==
  /\ rpc = "redactPDF"
  /\ ~IsOpenPdf(file.content)
  /\ rpc' = "settled"
  /\ redacted' = Rejected("Failed to parse PDF document")
  /\ UNCHANGED <<file, detectionResult, canvas, pdfDoc, detectorVars, ocrVars, appVars, browserVars>>

(* pdfDoc.save() resolves and redactPDF returns. *)
redactPDFSave ==
  /\ rpc = "save"
  /\ rpc' = "settled"
  /\ redacted' = [status |-> "resolved",
                  blob |-> [format |-> "application/pdf", pages |-> pdfDoc.pages],
                  mimeType |-> "application/pdf", previewUrl |-> "blob:"]
  /\ UNCHANGED <<file, detectionResult, canvas, pdfDoc, detectorVars, ocrVars, appVars, browserVars>>

NextRedaction ==
  \/ applyRedactions
  \/ readerOnload
  \/ readerOnerror
  \/ imgOnload
  \/ imgOnloadNoContext
  \/ imgOnerror
  \/ toBlobCallback
  \/ toBlobCallbackNull
  \/ redactPDFDraw
  \/ redactPDFLoadFails
  \/ redactPDFSave


-----------------------------------------------------------------------------
(* Inputs of applyRedactions: files of the accepted and of other media     *)
(* types, holding a picture, a PDF document, bytes that are neither, or    *)
(* bytes that cannot be read; detections on pages 0 to MaxPdfPages + 1.    *)

MaxWidth == 3       \* width of a picture, in pixels
MaxHeight == 2      \* height of a picture, in pixels
MaxPdfPages == 2    \* pages of a PDF document

(* ACCEPTED_IMAGE_TYPES and ACCEPTED_PDF_TYPE *)
ACCEPTED_IMAGE_TYPES == {"image/png", "image/jpeg", "image/jpg"}
ACCEPTED_PDF_TYPE == "application/pdf"
ACCEPTED_FILE_TYPES == ACCEPTED_IMAGE_TYPES \cup {ACCEPTED_PDF_TYPE}

OtherImageTypes == {"image/gif", "image/svg+xml"}
OtherTypes == {"text/plain", ""}

(* A picture with pairwise different pixels; with alpha, its first pixel   *)
(* is transparent.                                                         *)
SourceImage(width, height, alpha) ==
  [width |-> width, height |-> height,
   pixels |-> [p \in PixelsOf(width, height) |->
                 IF alpha /\ p = <<0, 0>> THEN Transparent
                 ELSE [v |-> 100 + 10 * p[1] + p[2], a |-> 255]]]

SourceImages(alpha) == {SourceImage(w, h, alpha) : w \in 1..MaxWidth, h \in 1..MaxHeight}

PageSizes == {[width |-> 595, height |-> 842], [width |-> 612, height |-> 792]}

SourcePdfs == UNION {[1..n -> PageSizes] : n \in 1..MaxPdfPages}

(* Bytes that are no document of the kind the media type names, and bytes  *)
(* that cannot be read.                                                    *)
Broken == {[kind |-> "garbage"], [kind |-> "unreadable"]}

(* JPEG pictures are opaque; the others come with and without alpha. *)
Files ==
  {[type |-> t, content |-> [kind |-> "image", image |-> img]] :
     t \in {"image/jpeg", "image/jpg"}, img \in SourceImages(FALSE)}
  \cup {[type |-> t, content |-> [kind |-> "image", image |-> img]] :
     t \in {"image/png"} \cup OtherImageTypes, img \in SourceImages(TRUE) \cup SourceImages(FALSE)}
  \cup {[type |-> ACCEPTED_PDF_TYPE,
         content |-> [kind |-> "pdf", encrypted |-> e, pages |-> sizes]] :
     sizes \in SourcePdfs, e \in BOOLEAN}
  \cup {[type |-> t, content |-> c] : t \in ACCEPTED_FILE_TYPES \cup OtherImageTypes, c \in Broken}
  \cup {[type |-> t, content |-> [kind |-> "garbage"]] : t \in OtherTypes}

Detection(type, x, y, width, height, pageNumber) ==
  [type |-> type, value |-> <<>>, confidence |-> 90,
   bbox |-> [x |-> x, y |-> y, width |-> width, height |-> height],
   pageNumber |-> pageNumber]

DetectionResults ==
  {[aadhaarNumbers |-> a, panNumbers |-> b, phoneNumbers |-> c, addresses |-> d] :
     a \in {<<>>, <<Detection("AADHAAR", 0, 0, 1, 1, 1)>>},
     b \in {<<>>, <<Detection("PAN", 1, 0, 2, 1, 1)>>},
     c \in {<<>>, <<Detection("PHONE", 0, 1, 1, 1, 2)>>, <<Detection("PHONE", 0, 0, 3, 2, 0)>>},
     d \in {<<>>, <<Detection("ADDRESS", 1, 1, 3, 2, 1)>>,
            <<Detection("ADDRESS", 1, 1, 3, 2, 1),
              Detection("ADDRESS", 0, 0, 2, 2, MaxPdfPages + 1)>>,
            <<Detection("ADDRESS", 0, 0, 2, 1, 2), Detection("ADDRESS", 1, 0, 1, 1, 2)>>}}

InitRedaction ==
  /\ DetectorIdle
  /\ OcrIdle
  /\ AppIdle
  /\ file \in Files
  /\ detectionResult \in DetectionResults
  /\ rpc = "called"
  /\ canvas = Null
  /\ pdfDoc = Null
  /\ redacted = Null

SpecRedaction == InitRedaction /\ [][NextRedaction]_vars

-----------------------------------------------------------------------------
(* Properties of the redaction engine.                                     *)

Resolved == rpc = "settled" /\ redacted.status = "resolved"
RejectedCall == rpc = "settled" /\ redacted.status = "rejected"

IsImageFile == file.content.kind = "image" /\ startsWithImage(file.type)

InBox(p, bbox) ==
  /\ p[1] >= bbox.x /\ p[1] < bbox.x + bbox.width
  /\ p[2] >= bbox.y /\ p[2] < bbox.y + bbox.height

(* The pixel lies in the box of some detection of page 1. *)
Covered(p) ==
  \E k \in DOMAIN allDetections(detectionResult) :
    /\ allDetections(detectionResult)[k].pageNumber = 1
    /\ InBox(p, allDetections(detectionResult)[k].bbox)

(* C12: in the picture that applyRedactions returns for an image file, a   *)
(* pixel inside the box of a detection of page 1 (of any category) is      *)
(* opaque black and every other pixel is the source pixel; detections of   *)
(* other pages change nothing.                                             *)
C12_RasterRedaction ==
  (Resolved /\ IsImageFile) =>
    \A p \in DOMAIN file.content.image.pixels :
      /\ p \in DOMAIN redacted.blob.pixels
      /\ redacted.blob.pixels[p] =
           IF Covered(p) THEN OpaqueBlack ELSE file.content.image.pixels[p]

(* The same on the canvas, before it is encoded. *)
CanvasRedaction ==
  (rpc = "toBlob") =>
    \A p \in DOMAIN file.content.image.pixels :
      canvas.pixels[p] = IF Covered(p) THEN OpaqueBlack ELSE file.content.image.pixels[p]

(* The same for the files that are not encoded as JPEG. *)
LosslessRasterRedaction ==
  (Resolved /\ IsImageFile /\ file.type # "image/jpeg") =>
    \A p \in DOMAIN file.content.image.pixels :
      redacted.blob.pixels[p] =
        IF Covered(p) THEN OpaqueBlack ELSE file.content.image.pixels[p]


IsPdfFile == IsOpenPdf(file.content) /\ file.type = "application/pdf"

PageCount == Len(file.content.pages)

(* The detections with page number p, in the order of the four lists. *)
DetectionsOnPage(p) == SelectSeq(allDetections(detectionResult), LAMBDA d : d.pageNumber = p)

(* The rectangle is opaque black and stands, from the bottom left, where   *)
(* the box of d stands from the top left of a page of height H.            *)
BlackOver(rectangle, d, H) ==
  /\ rectangle.x = d.bbox.x
  /\ rectangle.y = H - d.bbox.y - d.bbox.height
  /\ rectangle.width = d.bbox.width
  /\ rectangle.height = d.bbox.height
  /\ rectangle.color = <<0, 0, 0>>
  /\ rectangle.opacity = 1

(* C13: redactPDF paints, on each page p, one opaque black rectangle per    *)
(* detection of page number p, at (x, H_p - y - h, w, h), and nothing      *)
(* else; detections of other page numbers are skipped and do not fail the  *)
(* call; a page without detections gets no rectangle.                      *)
C13_PdfRedaction ==
  /\ (IsPdfFile /\ rpc = "settled") => redacted.status = "resolved"
  /\ (IsPdfFile /\ Resolved) =>
       /\ Len(redacted.blob.pages) = PageCount
       /\ \A p \in 1..PageCount :
            LET painted == redacted.blob.pages[p].rectangles
            IN /\ Len(painted) = Len(DetectionsOnPage(p))
               /\ \A k \in DOMAIN painted :
                    BlackOver(painted[k], DetectionsOnPage(p)[k], file.content.pages[p].height)

(* A PDF was redacted with a detection beyond its last page, one page      *)
(* painted twice and one page left without a rectangle.                    *)
C13_Witness ==
  /\ IsPdfFile /\ Resolved
  /\ \E k \in DOMAIN allDetections(detectionResult) :
       allDetections(detectionResult)[k].pageNumber > PageCount
  /\ \E p \in 1..PageCount : Len(redacted.blob.pages[p].rectangles) = 2
  /\ \E p \in 1..PageCount : redacted.blob.pages[p].rectangles = <<>>

(* C14: a file whose media type is none of the accepted ones (PDF, PNG,    *)
(* JPEG) enters neither redactImage nor redactPDF, and its call settles    *)
(* rejected.                                                               *)
C14_UnsupportedRejected ==
  (rpc # "idle" /\ file.type \notin ACCEPTED_FILE_TYPES) =>
    /\ rpc \in {"called", "settled"}
    /\ rpc = "settled" => redacted.status = "rejected"

(* The same for the media types that are not image types. *)
NonImageRejected ==
  (rpc # "idle" /\ file.type \notin ACCEPTED_FILE_TYPES /\ ~startsWithImage(file.type)) =>
    /\ rpc \in {"called", "settled"}
    /\ rpc = "settled" => redacted.status = "rejected"

(* C15: a call that succeeds returns the file's media type, an artifact    *)
(* encoded in that type, a picture of the source's width and height, and   *)
(* a PDF with the source's pages and page sizes in their order.            *)
C15_FormatPreserved ==
  Resolved =>
    /\ redacted.mimeType = file.type
    /\ redacted.blob.format = file.type
    /\ IsImageFile =>
         /\ redacted.blob.width = file.content.image.width
         /\ redacted.blob.height = file.content.image.height
    /\ IsPdfFile =>
         /\ Len(redacted.blob.pages) = PageCount
         /\ \A p \in 1..PageCount :
              /\ redacted.blob.pages[p].width = file.content.pages[p].width
              /\ redacted.blob.pages[p].height = file.content.pages[p].height

(* The same without the encoding of the artifact. *)
TypeAndDimensionsPreserved ==
  Resolved =>
    /\ redacted.mimeType = file.type
    /\ IsImageFile =>
         /\ redacted.blob.width = file.content.image.width
         /\ redacted.blob.height = file.content.image.height
    /\ IsPdfFile =>
         /\ Len(redacted.blob.pages) = PageCount
         /\ \A p \in 1..PageCount :
              /\ redacted.blob.pages[p].width = file.content.pages[p].width
              /\ redacted.blob.pages[p].height = file.content.pages[p].height


-----------------------------------------------------------------------------
(* Repeated calls of detectPII.  PatternDetector has no fields, so the     *)
(* instance from getPatternDetector and a new PatternDetector() behave     *)
(* alike; the caller may call again with the same OCR result.              *)

MaxCalls == 2       \* calls of detectPII on one OCR result

(* The caller calls detectPII(ocrResult) once more. *)
callAgain ==
  /\ pc = "returned"
  /\ Len(history) < MaxCalls
  /\ pc' = "ready"
  /\ UNCHANGED <<ocrResult, result, history, redactionVars, ocrVars, appVars, browserVars>>

NextRepeated == detectPII \/ callAgain

(* Block texts with one identifier of each category: 123456789012,         *)
(* ABCDE1234F, 9876543210, PIN: 560001 *)
MixedTexts ==
  { <<"1","2","3","4","5","6","7","8","9","0","1","2">>,
    <<"A","B","C","D","E","1","2","3","4","F">>,
    <<"9","8","7","6","5","4","3","2","1","0">>,
    <<"P","I","N",":"," ","5","6","0","0","0","1">> }

InitRepeated == Init(MixedTexts)
SpecRepeated == InitRepeated /\ [][NextRepeated]_vars

-----------------------------------------------------------------------------
(* The OCR service (src/lib/patternDetector.ts, from line 417 on).  An     *)
(* error is its name, its message and, for an OCRError, its user message;  *)
(* the message of an error from a library is a sequence of characters.     *)

OCRError(message, userMessage) ==
  [name |-> "OCRError", message |-> message, userMessage |-> userMessage]

LibraryError(message) == [name |-> "Error", message |-> message]

(* Messages of the errors that pdf.js and tesseract.js reject with. *)
InvalidPdfStructure == LibraryError(<<"I","n","v","a","l","i","d"," ","P","D","F"," ","s","t","r","u","c","t","u","r","e">>)
InvalidPageRequest == LibraryError(<<"I","n","v","a","l","i","d"," ","p","a","g","e"," ","r","e","q","u","e","s","t">>)
RenderingCancelled == LibraryError(<<"R","e","n","d","e","r","i","n","g"," ","c","a","n","c","e","l","l","e","d">>)
RecognitionFailed == LibraryError(<<"R","e","c","o","g","n","i","t","i","o","n"," ","f","a","i","l","e","d">>)

(* errorMessage.includes(a) || errorMessage.includes(b) *)
includesEither(errorMessage, a, b) == includes(errorMessage, a) \/ includes(errorMessage, b)

getUserFriendlyErrorMessage(error) ==
  IF error.name = "OCRError" THEN error.userMessage
  ELSE LET errorMessage == toLowerCase(error.message)
       IN IF includesEither(errorMessage, <<"w","o","r","k","e","r">>, <<"i","n","i","t","i","a","l","i","z","e">>)
          THEN "Unable to initialize text extraction. Please refresh the page and try again."
          ELSE IF includesEither(errorMessage, <<"l","o","a","d">>, <<"d","e","c","o","d","e">>)
          THEN "Unable to extract text from document. Please ensure the image is clear and try again."
          ELSE IF includes(errorMessage, <<"p","d","f">>)
          THEN "Error processing PDF. Please ensure the file is not corrupted and try again."
          ELSE IF includesEither(errorMessage, <<"c","a","n","v","a","s">>, <<"r","e","n","d","e","r">>)
          THEN "Error processing page. Please try again."
          ELSE "Unable to extract text from document. Please ensure the image is clear and try again."

(* The catch of extractText with an empty user message. *)
extractTextCatchSilent(error) == [pages |-> <<>>, success |-> FALSE, error |-> ""]

(* The catch of extractText. *)
extractTextCatch(error) ==
  [pages |-> <<>>, success |-> FALSE, error |-> getUserFriendlyErrorMessage(error)]

(* The catch of extractTextFromImage. *)
extractTextFromImageCatch(error) ==
  OCRError("Image OCR failed",
           "Unable to extract text from document. Please ensure the image is clear and try again.")

(* The outer catch of extractTextFromPDF. *)
extractTextFromPDFCatch(error) ==
  IF error.name = "OCRError" THEN error
  ELSE OCRError("PDF OCR failed",
                "Error processing PDF. Please ensure the file is not corrupted and try again.")

(* What goes wrong on a page: nothing, pdf.getPage, canvas.getContext,     *)
(* page.render, canvas.toBlob or worker.recognize.                         *)
Faults == {"none", "getPage", "getContext", "render", "toBlob", "recognize"}

(* The error thrown in the body of the page loop. *)
pageError(fault, n, numPages) ==
  CASE fault = "getPage" -> InvalidPageRequest
    [] fault = "render" -> RenderingCancelled
    [] fault = "recognize" -> RecognitionFailed
    [] fault = "getContext" ->
         OCRError("Failed to get canvas context",
                  "Error processing page " \o ToString(n) \o " of " \o ToString(numPages)
                    \o ". Some pages may not be redacted.")
    [] fault = "toBlob" ->
         OCRError("Failed to convert canvas to blob",
                  "Error processing page " \o ToString(n) \o " of " \o ToString(numPages)
                    \o ". Some pages may not be redacted.")

(* The page data pushed for a page: the words that worker.recognize finds  *)
(* on a picture of the given size.                                         *)
recognizedPage(n, width, height, texts) ==
  [PageData(n, texts) EXCEPT !.width = width, !.height = height]

numPages == Len(originalFile.content.pages)

ViewportScale == 2      \* page.getViewport({ scale: 2.0 })

(* await this.initialize() rejects. *)
initializeFails ==
  /\ opc = "called"
  /\ ~isInitialized
  /\ opc' = "settled"
  /\ extraction' = extractTextCatch(
       OCRError("Failed to initialize OCR worker",
                "Unable to initialize text extraction. Please refresh the page and try again."))
  /\ UNCHANGED <<isInitialized, pageNum, pages, detectorVars, redactionVars, appVars, browserVars>>

(* extractText with a worker: the routing on file.type. *)
extractText ==
  /\ opc = "called"
  /\ isInitialized' = TRUE
  /\ IF originalFile.type = "application/pdf"
     THEN opc' = "getDocument" /\ UNCHANGED extraction
     ELSE IF startsWithImage(originalFile.type)
     THEN opc' = "loadImage" /\ UNCHANGED extraction
     ELSE /\ opc' = "settled"
          /\ extraction' =
               [pages |-> <<>>, success |-> FALSE,
                error |-> "Unsupported file type. Please upload PNG, JPG, JPEG, or PDF files."]
  /\ UNCHANGED <<pageNum, pages, detectorVars, redactionVars, appVars, browserVars>>

(* loadImage resolves. *)
loadImage ==
  /\ opc = "loadImage"
  /\ originalFile.content.kind = "image"
  /\ opc' = "recognize"
  /\ UNCHANGED <<isInitialized, pageNum, pages, extraction, detectorVars, redactionVars, appVars, browserVars>>

(* loadImage rejects: img.onerror. *)
loadImageFails ==
  /\ opc = "loadImage"
  /\ originalFile.content.kind # "image"
  /\ opc' = "settled"
  /\ extraction' = extractTextCatch(extractTextFromImageCatch(
       OCRError("Failed to load image",
                "Unable to load image. Please ensure the file is a valid image and try again.")))
  /\ UNCHANGED <<isInitialized, pageNum, pages, detectorVars, redactionVars, appVars, browserVars>>

(* worker.recognize resolves for the picture: one page. *)
recognizeImage ==
  /\ opc = "recognize"
  /\ originalFile.content.fault = "none"
  /\ opc' = "settled"
  /\ extraction' =
       [pages |-> <<recognizedPage(1, originalFile.content.image.width,
                                   originalFile.content.image.height,
                                   originalFile.content.texts)>>,
        success |-> TRUE]
  /\ UNCHANGED <<isInitialized, pageNum, pages, detectorVars, redactionVars, appVars, browserVars>>

(* worker.recognize rejects for the picture. *)
recognizeImageFails ==
  /\ opc = "recognize"
  /\ originalFile.content.fault # "none"
  /\ opc' = "settled"
  /\ extraction' = extractTextCatch(extractTextFromImageCatch(RecognitionFailed))
  /\ UNCHANGED <<isInitialized, pageNum, pages, detectorVars, redactionVars, appVars, browserVars>>

(* pdfjsLib.getDocument resolves: the page loop begins. *)
getDocument ==
  /\ opc = "getDocument"
  /\ originalFile.content.kind = "pdf"
  /\ pageNum' = 1
  /\ pages' = <<>>
  /\ opc' = "page"
  /\ UNCHANGED <<isInitialized, extraction, detectorVars, redactionVars, appVars, browserVars>>

(* file.arrayBuffer() or pdfjsLib.getDocument rejects. *)
getDocumentFails ==
  /\ opc = "getDocument"
  /\ originalFile.content.kind # "pdf"
  /\ opc' = "settled"
  /\ extraction' = extractTextCatch(extractTextFromPDFCatch(InvalidPdfStructure))
  /\ UNCHANGED <<isInitialized, pageNum, pages, detectorVars, redactionVars, appVars, browserVars>>

(* The body of the page loop runs through: the page, rendered at scale 2,  *)
(* is pushed.                                                              *)
pageProcessed ==
  /\ opc = "page"
  /\ pageNum <= numPages
  /\ originalFile.content.pages[pageNum].fault = "none"
  /\ pages' = Append(pages, recognizedPage(pageNum,
                                           ViewportScale * originalFile.content.pages[pageNum].width,
                                           ViewportScale * originalFile.content.pages[pageNum].height,
                                           originalFile.content.pages[pageNum].texts))
  /\ pageNum' = pageNum + 1
  /\ UNCHANGED <<isInitialized, opc, extraction, detectorVars, redactionVars, appVars, browserVars>>

(* The body throws on the first page, or throws an OCRError: rethrown. *)
pageFails ==
  /\ opc = "page"
  /\ pageNum <= numPages
  /\ originalFile.content.pages[pageNum].fault # "none"
  /\ LET error == pageError(originalFile.content.pages[pageNum].fault, pageNum, numPages)
     IN /\ pageNum = 1 \/ error.name = "OCRError"
        /\ extraction' = extractTextCatch(extractTextFromPDFCatch(error))
  /\ opc' = "settled"
  /\ UNCHANGED <<isInitialized, pageNum, pages, detectorVars, redactionVars, appVars, browserVars>>

(* The body throws another error on a later page: logged, and the loop     *)
(* goes on with the next page.                                             *)
pageSkipped ==
  /\ opc = "page"
  /\ pageNum <= numPages
  /\ originalFile.content.pages[pageNum].fault # "none"
  /\ LET error == pageError(originalFile.content.pages[pageNum].fault, pageNum, numPages)
     IN ~(pageNum = 1 \/ error.name = "OCRError")
  /\ pageNum' = pageNum + 1
  /\ UNCHANGED <<isInitialized, opc, pages, extraction, detectorVars, redactionVars, appVars, browserVars>>

(* After the loop: the pages, or an OCRError when there are none. *)
pagesDone ==
  /\ opc = "page"
  /\ pageNum > numPages
  /\ opc' = "settled"
  /\ extraction' =
       IF Len(pages) = 0
       THEN extractTextCatch(extractTextFromPDFCatch(
              OCRError("No pages could be processed",
                       "Unable to extract text from PDF. Please ensure the file is not corrupted and try again.")))
       ELSE [pages |-> pages, success |-> TRUE]
  /\ UNCHANGED <<isInitialized, pageNum, pages, detectorVars, redactionVars, appVars, browserVars>>


-----------------------------------------------------------------------------
(* The page (src/app/page.tsx) and its reducer (src/unnamed/part_001).     *)

(* { status, currentPage: action.totalPages ? 1 : undefined, totalPages:   *)
(* action.totalPages }; a field that is undefined is left out.             *)
startStage(status, action) ==
  IF "totalPages" \notin DOMAIN action THEN [status |-> status]
  ELSE IF action.totalPages = 0 THEN [status |-> status, totalPages |-> 0]
  ELSE [status |-> status, currentPage |-> 1, totalPages |-> action.totalPages]

(* processingReducer that leaves the state as it is on ERROR. *)
processingReducerIgnoringError(state, action) ==
  CASE action.type = "START_UPLOAD" -> [status |-> "uploading", progress |-> 0]
    [] action.type = "UPDATE_UPLOAD_PROGRESS" ->
         IF state.status = "uploading"
         THEN [status |-> "uploading", progress |-> action.progress] ELSE state
    [] action.type = "START_EXTRACTING" -> startStage("extracting", action)
    [] action.type = "UPDATE_EXTRACTING_PROGRESS" ->
         IF state.status = "extracting"
         THEN [status |-> "extracting", currentPage |-> action.currentPage,
               totalPages |-> action.totalPages]
         ELSE state
    [] action.type = "START_DETECTING" -> [status |-> "detecting"]
    [] action.type = "START_REDACTING" -> startStage("redacting", action)
    [] action.type = "UPDATE_REDACTING_PROGRESS" ->
         IF state.status = "redacting"
         THEN [status |-> "redacting", currentPage |-> action.currentPage,
               totalPages |-> action.totalPages]
         ELSE state
    [] action.type = "COMPLETE" ->
         [status |-> "complete", result |-> action.result, detections |-> action.detections]
    [] action.type = "RESET" -> [status |-> "idle"]
    [] OTHER -> state

processingReducer(state, action) ==
  CASE action.type = "START_UPLOAD" -> [status |-> "uploading", progress |-> 0]
    [] action.type = "UPDATE_UPLOAD_PROGRESS" ->
         IF state.status = "uploading"
         THEN [status |-> "uploading", progress |-> action.progress] ELSE state
    [] action.type = "START_EXTRACTING" -> startStage("extracting", action)
    [] action.type = "UPDATE_EXTRACTING_PROGRESS" ->
         IF state.status = "extracting"
         THEN [status |-> "extracting", currentPage |-> action.currentPage,
               totalPages |-> action.totalPages]
         ELSE state
    [] action.type = "START_DETECTING" -> [status |-> "detecting"]
    [] action.type = "START_REDACTING" -> startStage("redacting", action)
    [] action.type = "UPDATE_REDACTING_PROGRESS" ->
         IF state.status = "redacting"
         THEN [status |-> "redacting", currentPage |-> action.currentPage,
               totalPages |-> action.totalPages]
         ELSE state
    [] action.type = "COMPLETE" ->
         [status |-> "complete", result |-> action.result, detections |-> action.detections]
    [] action.type = "ERROR" -> [status |-> "error", error |-> action.error]
    [] action.type = "RESET" -> [status |-> "idle"]
    [] OTHER -> state

(* The states after each of the dispatched actions, from the k-th on. *)
RECURSIVE reduceAll(_, _, _)
reduceAll(state, actions, k) ==
  IF k > Len(actions) THEN <<>>
  ELSE <<processingReducer(state, actions[k])>>
       \o reduceAll(processingReducer(state, actions[k]), actions, k + 1)

(* dispatch(a1); dispatch(a2); ... *)
dispatch(actions) ==
  LET states == reduceAll(processingState, actions, 1)
  IN /\ processingState' = states[Len(states)]
     /\ statuses' = statuses \o [k \in DOMAIN states |-> states[k].status]

(* handleFileAccepted(file) up to the call of extractText. *)
handleFileAccepted ==
  /\ hpc = "called"
  /\ dispatch(<<[type |-> "START_UPLOAD"],
                [type |-> "UPDATE_UPLOAD_PROGRESS", progress |-> 100],
                [type |-> "START_EXTRACTING"]>>)
  /\ opc' = "called"
  /\ hpc' = "extractText"
  /\ UNCHANGED <<originalFile, displayed, isInitialized, pageNum, pages, extraction,
                 detectorVars, redactionVars, browserVars>>

(* ocrResult.error, with the empty string for undefined (both are falsy). *)
errorOf(ocr) == IF "error" \in DOMAIN ocr THEN ocr.error ELSE ""

(* extractText has resolved without success: the catch dispatches ERROR. *)
extractionFailed ==
  /\ hpc = "extractText"
  /\ opc = "settled"
  /\ ~extraction.success \/ errorOf(extraction) # ""
  /\ dispatch(<<[type |-> "ERROR",
                 error |-> IF errorOf(extraction) # "" THEN errorOf(extraction)
                           ELSE "OCR extraction failed"]>>)
  /\ hpc' = "done"
  /\ UNCHANGED <<originalFile, displayed, ocrVars, detectorVars, redactionVars, browserVars>>

(* extractText has resolved with pages: detectPII is called on them and    *)
(* applyRedactions on the file and the detections.                         *)
extractionSucceeded ==
  /\ hpc = "extractText"
  /\ opc = "settled"
  /\ extraction.success /\ errorOf(extraction) = ""
  /\ dispatch(<<[type |-> "START_DETECTING"], [type |-> "START_REDACTING"]>>)
  /\ ocrResult' = extraction
  /\ result' = detectPIIOf(extraction)
  /\ history' = Append(history, result')
  /\ pc' = "returned"
  /\ file' = originalFile
  /\ detectionResult' = result'
  /\ rpc' = "called"
  /\ hpc' = "applyRedactions"
  /\ UNCHANGED <<originalFile, displayed, ocrVars, canvas, pdfDoc, redacted, browserVars>>

(* applyRedactions has resolved: COMPLETE with the artifact and the        *)
(* detections.                                                             *)
redactionResolved ==
  /\ hpc = "applyRedactions"
  /\ rpc = "settled"
  /\ redacted.status = "resolved"
  /\ dispatch(<<[type |-> "COMPLETE",
                 result |-> [blob |-> redacted.blob, mimeType |-> redacted.mimeType,
                             previewUrl |-> redacted.previewUrl],
                 detections |-> result]>>)
  /\ hpc' = "done"
  /\ UNCHANGED <<originalFile, displayed, ocrVars, detectorVars, redactionVars, browserVars>>

(* applyRedactions has rejected: the catch dispatches ERROR. *)
redactionRejected ==
  /\ hpc = "applyRedactions"
  /\ rpc = "settled"
  /\ redacted.status = "rejected"
  /\ dispatch(<<[type |-> "ERROR", error |-> redacted.error]>>)
  /\ hpc' = "done"
  /\ UNCHANGED <<originalFile, displayed, ocrVars, detectorVars, redactionVars, browserVars>>

(* One run of handleFileAccepted with the calls it awaits.  A file that    *)
(* the OCR service could read is read by the redaction engine as well.     *)
NextPipeline ==
  \/ handleFileAccepted
  \/ initializeFails
  \/ extractText
  \/ loadImage
  \/ loadImageFails
  \/ recognizeImage
  \/ recognizeImageFails
  \/ getDocument
  \/ getDocumentFails
  \/ pageProcessed
  \/ pageFails
  \/ pageSkipped
  \/ pagesDone
  \/ extractionFailed
  \/ extractionSucceeded
  \/ applyRedactions
  \/ readerOnload
  \/ imgOnload
  \/ imgOnloadNoContext
  \/ toBlobCallback
  \/ toBlobCallbackNull
  \/ redactPDFDraw
  \/ redactPDFLoadFails
  \/ redactPDFSave
  \/ redactionResolved
  \/ redactionRejected

(* What stands on a page: nothing, or a 12-digit number. *)
PageTexts == {<<>>, << <<"1","2","3","4","5","6","7","8","9","0","1","2">> >>}

(* PDF documents of 0 to MaxPdfPages pages with what goes wrong on each. *)
UploadedPdfs ==
  UNION {[1..n -> {[width |-> 595, height |-> 842, texts |-> t, fault |-> f] :
                     t \in PageTexts, f \in Faults}] : n \in 0..MaxPdfPages}

(* The files that may be handed to handleFileAccepted. *)
UploadedFiles ==
  {[type |-> t, content |-> [kind |-> "image", image |-> SourceImage(2, 1, FALSE),
                              texts |-> x, fault |-> f]] :
     t \in {"image/png", "image/jpeg"}, x \in PageTexts, f \in {"none", "recognize"}}
  \cup {[type |-> ACCEPTED_PDF_TYPE,
         content |-> [kind |-> "pdf", encrypted |-> e, pages |-> pdfPages]] :
     pdfPages \in UploadedPdfs, e \in BOOLEAN}
  \cup {[type |-> t, content |-> [kind |-> "garbage"]] :
     t \in {"image/png", ACCEPTED_PDF_TYPE, "text/plain"}}

InitPipeline ==
  /\ DetectorIdle
  /\ RedactionIdle
  /\ originalFile \in UploadedFiles
  /\ hpc = "called"
  /\ processingState = [status |-> "idle"]
  /\ statuses = <<>>
  /\ displayed = Null
  /\ objectUrls = {} /\ timeouts = <<>> /\ downloads = <<>> /\ revocations = <<>>
  /\ isInitialized \in BOOLEAN
  /\ opc = "idle"
  /\ pageNum = 0
  /\ pages = <<>>
  /\ extraction = Null

SpecPipeline == InitPipeline /\ [][NextPipeline]_vars

-----------------------------------------------------------------------------
(* Properties of the run.                                                  *)

UploadedPdf == originalFile.content.kind = "pdf" /\ originalFile.type = "application/pdf"

(* The extraction of page k of the uploaded PDF fails. *)
PageFails(k) == originalFile.content.pages[k].fault # "none"

(* C16: when the extraction of a page k >= 2 of a PDF fails, the run never *)
(* reaches the status complete; it ends in error.                          *)
C16_NoArtifactAfterPageFailure ==
  (UploadedPdf /\ \E k \in 2..numPages : PageFails(k)) =>
    /\ processingState.status # "complete"
    /\ hpc = "done" => processingState.status = "error"

(* The same for the failures of canvas.getContext and canvas.toBlob. *)
NoArtifactAfterCanvasFailure ==
  (UploadedPdf /\ \E k \in 2..numPages :
      originalFile.content.pages[k].fault \in {"getContext", "toBlob"}
      /\ \A j \in 1..(k - 1) : ~PageFails(j)) =>
    /\ processingState.status # "complete"
    /\ hpc = "done" => processingState.status = "error"


(* The statuses with repetitions of the same status left out. *)
RECURSIVE Collapse(_)
Collapse(seq) ==
  IF Len(seq) <= 1 THEN seq
  ELSE IF seq[1] = seq[2] THEN Collapse(Tail(seq))
  ELSE <<seq[1]>> \o Collapse(Tail(seq))

StatusOrder == <<"uploading", "extracting", "detecting", "redacting", "complete">>

IsPrefix(a, b) == Len(a) <= Len(b) /\ a = SubSeq(b, 1, Len(a))

(* C17: the statuses of a run are uploading, extracting, detecting,        *)
(* redacting, complete in this order, cut short by one error at the first  *)
(* stage that fails; a finished run ends in complete or in error; complete *)
(* comes only after extractText reported success and applyRedactions       *)
(* resolved, and carries that artifact and the detections it was built     *)
(* from.                                                                   *)
C17_StatusSequence ==
  LET run == Collapse(statuses)
  IN /\ \/ IsPrefix(run, StatusOrder)
        \/ \E n \in 1..4 : run = SubSeq(StatusOrder, 1, n) \o <<"error">>
     /\ hpc = "done" => run # <<>> /\ run[Len(run)] \in {"complete", "error"}
     /\ processingState.status = "complete" =>
          /\ extraction.success
          /\ rpc = "settled" /\ redacted.status = "resolved"
          /\ processingState.result.blob = redacted.blob
          /\ processingState.result.mimeType = redacted.mimeType
          /\ processingState.detections = detectionResult
          /\ detectionResult = detectPIIOf(extraction)

(* A run has ended in complete with a detection. *)
C17_Witness ==
  /\ hpc = "done"
  /\ processingState.status = "complete"
  /\ processingState.detections.aadhaarNumbers # <<>>
  /\ Collapse(statuses) = StatusOrder

(* A run was cut short by an error in the redaction stage. *)
RedactionErrorRun ==
  /\ hpc = "done"
  /\ Collapse(statuses) = <<"uploading", "extracting", "detecting", "redacting", "error">>

UnsupportedType ==
  originalFile.type # "application/pdf" /\ ~startsWithImage(originalFile.type)

(* One of the failures after which no page data can be returned. *)
ExtractionMustFail ==
  \/ UnsupportedType
  \/ ~isInitialized
  \/ originalFile.content.kind = "garbage"
  \/ originalFile.content.kind = "image" /\ originalFile.content.fault # "none"
  \/ UploadedPdf /\ (numPages = 0 \/ PageFails(1))

(* C19: extractText always resolves with a result; after an unsupported    *)
(* type, a failed initialization, a failed image OCR, a failure on the     *)
(* first page of a PDF or a PDF without a processed page the result has    *)
(* success = false, no pages and a non-empty error; a result with success  *)
(* = true has at least one page.                                           *)
C19_ExtractTextResolves ==
  opc = "settled" =>
    /\ extraction.success \in BOOLEAN
    /\ ExtractionMustFail => ~extraction.success
    /\ ~extraction.success => extraction.pages = <<>> /\ errorOf(extraction) # ""
    /\ extraction.success => Len(extraction.pages) >= 1

(* extractText has settled after a failure on the first page of a PDF. *)
C19_Witness ==
  /\ opc = "settled"
  /\ UploadedPdf /\ numPages >= 2 /\ PageFails(1)
  /\ isInitialized
  /\ ~extraction.success


-----------------------------------------------------------------------------
(* The display of errors (src/unnamed/part_004, src/unnamed/part_003 and   *)
(* handleFileRejected of src/app/page.tsx).  Error strings are sequences   *)
(* of characters.                                                          *)

ErrorCodes ==
  {"FILE_TOO_LARGE", "INVALID_TYPE", "UPLOAD_FAILED", "OCR_FAILED", "NO_TEXT_DETECTED",
   "MULTIPAGE_ERROR", "REDACTION_FAILED", "PDF_GENERATION_ERROR", "UNKNOWN_ERROR"}

(* ERROR_MESSAGES: the title and the message of each error code. *)
ERROR_MESSAGES ==
  [c \in ErrorCodes |->
     CASE c = "FILE_TOO_LARGE" ->
            (* File size exceeds 10MB limit. Please upload a smaller file. *)
            [title |-> "File Too Large",
             message |-> <<"F","i","l","e"," ","s","i","z","e"," ","e","x","c","e","e","d","s",
                         " ","1","0","M","B"," ","l","i","m","i","t","."," ","P","l","e","a",
                         "s","e"," ","u","p","l","o","a","d"," ","a"," ","s","m","a","l","l",
                         "e","r"," ","f","i","l","e",".">>]
       [] c = "INVALID_TYPE" ->
            (* Unsupported file type. Please upload PNG, JPG, JPEG, or PDF files. *)
            [title |-> "Unsupported File Type",
             message |-> <<"U","n","s","u","p","p","o","r","t","e","d"," ","f","i","l","e"," ",
                         "t","y","p","e","."," ","P","l","e","a","s","e"," ","u","p","l","o",
                         "a","d"," ","P","N","G",","," ","J","P","G",","," ","J","P","E","G",
                         ","," ","o","r"," ","P","D","F"," ","f","i","l","e","s",".">>]
       [] c = "UPLOAD_FAILED" ->
            (* Upload failed. Please check your connection and try again. *)
            [title |-> "Upload Failed",
             message |-> <<"U","p","l","o","a","d"," ","f","a","i","l","e","d","."," ","P","l",
                         "e","a","s","e"," ","c","h","e","c","k"," ","y","o","u","r"," ","c",
                         "o","n","n","e","c","t","i","o","n"," ","a","n","d"," ","t","r","y",
                         " ","a","g","a","i","n",".">>]
       [] c = "OCR_FAILED" ->
            (* Unable to extract text from document. Please ensure the image is clear and try again. *)
            [title |-> "Text Extraction Failed",
             message |-> <<"U","n","a","b","l","e"," ","t","o"," ","e","x","t","r","a","c","t",
                         " ","t","e","x","t"," ","f","r","o","m"," ","d","o","c","u","m","e",
                         "n","t","."," ","P","l","e","a","s","e"," ","e","n","s","u","r","e",
                         " ","t","h","e"," ","i","m","a","g","e"," ","i","s"," ","c","l","e",
                         "a","r"," ","a","n","d"," ","t","r","y"," ","a","g","a","i","n",".">>]
       [] c = "NO_TEXT_DETECTED" ->
            (* No text found in document. Please upload a document containing text. *)
            [title |-> "No Text Found",
             message |-> <<"N","o"," ","t","e","x","t"," ","f","o","u","n","d"," ","i","n"," ",
                         "d","o","c","u","m","e","n","t","."," ","P","l","e","a","s","e"," ",
                         "u","p","l","o","a","d"," ","a"," ","d","o","c","u","m","e","n","t",
                         " ","c","o","n","t","a","i","n","i","n","g"," ","t","e","x","t",".">>]
       [] c = "MULTIPAGE_ERROR" ->
            (* Error processing some pages. Some pages may not be redacted. *)
            [title |-> "Multi-page Processing Error",
             message |-> <<"E","r","r","o","r"," ","p","r","o","c","e","s","s","i","n","g"," ",
                         "s","o","m","e"," ","p","a","g","e","s","."," ","S","o","m","e"," ",
                         "p","a","g","e","s"," ","m","a","y"," ","n","o","t"," ","b","e"," ",
                         "r","e","d","a","c","t","e","d",".">>]
       [] c = "REDACTION_FAILED" ->
            (* Unable to apply redactions. Please try again. *)
            [title |-> "Redaction Failed",
             message |-> <<"U","n","a","b","l","e"," ","t","o"," ","a","p","p","l","y"," ","r",
                         "e","d","a","c","t","i","o","n","s","."," ","P","l","e","a","s","e",
                         " ","t","r","y"," ","a","g","a","i","n",".">>]
       [] c = "PDF_GENERATION_ERROR" ->
            (* Error creating redacted PDF. Please try again. *)
            [title |-> "PDF Generation Error",
             message |-> <<"E","r","r","o","r"," ","c","r","e","a","t","i","n","g"," ","r","e",
                         "d","a","c","t","e","d"," ","P","D","F","."," ","P","l","e","a","s",
                         "e"," ","t","r","y"," ","a","g","a","i","n",".">>]
       [] c = "UNKNOWN_ERROR" ->
            (* An unexpected error occurred. Please try again. *)
            [title |-> "Unexpected Error",
             message |-> <<"A","n"," ","u","n","e","x","p","e","c","t","e","d"," ","e","r","r",
                         "o","r"," ","o","c","c","u","r","r","e","d","."," ","P","l","e","a",
                         "s","e"," ","t","r","y"," ","a","g","a","i","n",".">>]]

getErrorMessage(code) ==
  IF code \in ErrorCodes THEN ERROR_MESSAGES[code] ELSE ERROR_MESSAGES["UNKNOWN_ERROR"]

fileErrorToCode(error) == error.code

parseErrorMessage(errorMessage) ==
  LET lowerMessage == toLowerCase(errorMessage)
  IN IF includes(lowerMessage, <<"e","x","t","r","a","c","t">>) \/ includes(lowerMessage, <<"o","c","r">>) THEN "OCR_FAILED"
     ELSE IF includes(lowerMessage, <<"n","o"," ","t","e","x","t">>) THEN "NO_TEXT_DETECTED"
     ELSE IF includes(lowerMessage, <<"p","a","g","e">>) /\ includes(lowerMessage, <<"e","r","r","o","r">>) THEN "MULTIPAGE_ERROR"
     ELSE IF includes(lowerMessage, <<"r","e","d","a","c","t">>) THEN "REDACTION_FAILED"
     ELSE IF includes(lowerMessage, <<"p","d","f">>) /\ includes(lowerMessage, <<"g","e","n","e","r","a","t">>)
     THEN "PDF_GENERATION_ERROR"
     ELSE "UNKNOWN_ERROR"

(* formatError for a string (typeof error === 'string') and for a          *)
(* FileError.                                                              *)
formatError(error) ==
  IF error.kind = "string" THEN getErrorMessage(parseErrorMessage(error.value))
  ELSE getErrorMessage(fileErrorToCode(error))

(* The FileErrors that UploadComponent rejects with. *)
FileErrors ==
  {[kind |-> "FileError", code |-> c, message |-> ERROR_MESSAGES[c].message] :
     c \in {"FILE_TOO_LARGE", "INVALID_TYPE", "UPLOAD_FAILED"}}

(* Messages of the errors that a run of handleFileAccepted catches, and    *)
(* the messages of ERROR_MESSAGES.                                         *)
CaughtMessages ==
  {ERROR_MESSAGES[c].message : c \in ErrorCodes}
  \cup {
    (* Unable to initialize text extraction. Please refresh the page and try again. *)
    <<"U","n","a","b","l","e"," ","t","o"," ","i","n","i","t","i","a","l",
      "i","z","e"," ","t","e","x","t"," ","e","x","t","r","a","c","t","i",
      "o","n","."," ","P","l","e","a","s","e"," ","r","e","f","r","e","s",
      "h"," ","t","h","e"," ","p","a","g","e"," ","a","n","d"," ","t","r",
      "y"," ","a","g","a","i","n",".">>,
    (* Error processing PDF. Please ensure the file is not corrupted and try again. *)
    <<"E","r","r","o","r"," ","p","r","o","c","e","s","s","i","n","g"," ",
      "P","D","F","."," ","P","l","e","a","s","e"," ","e","n","s","u","r",
      "e"," ","t","h","e"," ","f","i","l","e"," ","i","s"," ","n","o","t",
      " ","c","o","r","r","u","p","t","e","d"," ","a","n","d"," ","t","r",
      "y"," ","a","g","a","i","n",".">>,
    (* Unable to extract text from PDF. Please ensure the file is not corrupted and try again. *)
    <<"U","n","a","b","l","e"," ","t","o"," ","e","x","t","r","a","c","t",
      " ","t","e","x","t"," ","f","r","o","m"," ","P","D","F","."," ","P",
      "l","e","a","s","e"," ","e","n","s","u","r","e"," ","t","h","e"," ",
      "f","i","l","e"," ","i","s"," ","n","o","t"," ","c","o","r","r","u",
      "p","t","e","d"," ","a","n","d"," ","t","r","y"," ","a","g","a","i",
      "n",".">>,
    (* Text extraction service not ready. Please try again. *)
    <<"T","e","x","t"," ","e","x","t","r","a","c","t","i","o","n"," ","s",
      "e","r","v","i","c","e"," ","n","o","t"," ","r","e","a","d","y",".",
      " ","P","l","e","a","s","e"," ","t","r","y"," ","a","g","a","i","n",
      ".">>,
    (* Error processing page 2 of 2. Some pages may not be redacted. *)
    <<"E","r","r","o","r"," ","p","r","o","c","e","s","s","i","n","g"," ",
      "p","a","g","e"," ","2"," ","o","f"," ","2","."," ","S","o","m","e",
      " ","p","a","g","e","s"," ","m","a","y"," ","n","o","t"," ","b","e",
      " ","r","e","d","a","c","t","e","d",".">>,
    (* Error processing page 2 of 3. Some pages may not be redacted. *)
    <<"E","r","r","o","r"," ","p","r","o","c","e","s","s","i","n","g"," ",
      "p","a","g","e"," ","2"," ","o","f"," ","3","."," ","S","o","m","e",
      " ","p","a","g","e","s"," ","m","a","y"," ","n","o","t"," ","b","e",
      " ","r","e","d","a","c","t","e","d",".">>,
    (* Error processing page 3 of 3. Some pages may not be redacted. *)
    <<"E","r","r","o","r"," ","p","r","o","c","e","s","s","i","n","g"," ",
      "p","a","g","e"," ","3"," ","o","f"," ","3","."," ","S","o","m","e",
      " ","p","a","g","e","s"," ","m","a","y"," ","n","o","t"," ","b","e",
      " ","r","e","d","a","c","t","e","d",".">>,
    (* OCR extraction failed *)
    <<"O","C","R"," ","e","x","t","r","a","c","t","i","o","n"," ","f","a",
      "i","l","e","d">>,
    (* Unsupported file type: text/plain *)
    <<"U","n","s","u","p","p","o","r","t","e","d"," ","f","i","l","e"," ",
      "t","y","p","e",":"," ","t","e","x","t","/","p","l","a","i","n">>,
    (* Failed to get canvas context *)
    <<"F","a","i","l","e","d"," ","t","o"," ","g","e","t"," ","c","a","n",
      "v","a","s"," ","c","o","n","t","e","x","t">>,
    (* Failed to create blob from canvas *)
    <<"F","a","i","l","e","d"," ","t","o"," ","c","r","e","a","t","e"," ",
      "b","l","o","b"," ","f","r","o","m"," ","c","a","n","v","a","s">>,
    (* Failed to load image *)
    <<"F","a","i","l","e","d"," ","t","o"," ","l","o","a","d"," ","i","m",
      "a","g","e">>,
    (* Failed to read file *)
    <<"F","a","i","l","e","d"," ","t","o"," ","r","e","a","d"," ","f","i",
      "l","e">>,
    (* Failed to parse PDF document *)
    <<"F","a","i","l","e","d"," ","t","o"," ","p","a","r","s","e"," ","P",
      "D","F"," ","d","o","c","u","m","e","n","t">>,
    (* An unexpected error occurred *)
    <<"A","n"," ","u","n","e","x","p","e","c","t","e","d"," ","e","r","r",
      "o","r"," ","o","c","c","u","r","r","e","d">> }

(* handleFileRejected(error): ERROR with the message of the FileError. *)
handleFileRejected ==
  /\ hpc = "idle"
  /\ processingState.status \in {"idle", "error"}
  /\ \E error \in FileErrors :
       processingState' = processingReducer(processingState, [type |-> "ERROR", error |-> error.message])
  /\ UNCHANGED <<originalFile, displayed, hpc, statuses, ocrVars, detectorVars, redactionVars, browserVars>>

(* A run of handleFileAccepted that ends in its catch: ERROR with the     *)
(* message of the error caught.                                            *)
handleFileAcceptedCatch ==
  /\ hpc = "idle"
  /\ processingState.status \in {"idle", "error"}
  /\ \E errorMessage \in CaughtMessages :
       processingState' = processingReducer(processingState, [type |-> "ERROR", error |-> errorMessage])
  /\ UNCHANGED <<originalFile, displayed, hpc, statuses, ocrVars, detectorVars, redactionVars, browserVars>>

(* ErrorDisplay renders processingState.error. *)
ErrorDisplay ==
  /\ hpc = "idle"
  /\ processingState.status = "error"
  /\ displayed' = [error |-> processingState.error,
                   errorConfig |-> formatError([kind |-> "string", value |-> processingState.error])]
  /\ displayed' # displayed
  /\ UNCHANGED <<originalFile, hpc, processingState, statuses, ocrVars, detectorVars, redactionVars, browserVars>>

NextErrors == handleFileRejected \/ handleFileAcceptedCatch \/ ErrorDisplay

InitErrors == DetectorIdle /\ RedactionIdle /\ OcrIdle /\ AppIdle

SpecErrors == InitErrors /\ [][NextErrors]_vars

(* C20: an error string that is the message defined for an error code is  *)
(* displayed with the title and the message of that code.                  *)
C20_OwnMessage ==
  displayed # Null =>
    \A c \in ErrorCodes :
      displayed.error = ERROR_MESSAGES[c].message =>
        /\ parseErrorMessage(displayed.error) = c
        /\ displayed.errorConfig.title = ERROR_MESSAGES[c].title
        /\ displayed.errorConfig.message = ERROR_MESSAGES[c].message

(* The same for the codes of the extraction and redaction stages. *)
StageMessagesOwn ==
  displayed # Null =>
    \A c \in {"OCR_FAILED", "NO_TEXT_DETECTED", "MULTIPAGE_ERROR", "REDACTION_FAILED", "UNKNOWN_ERROR"} :
      displayed.error = ERROR_MESSAGES[c].message => displayed.errorConfig = ERROR_MESSAGES[c]


-----------------------------------------------------------------------------
(* Deduplication of the identifiers.                                       *)

(* The PHONE detections of a page that denote the national number n. *)
PhonesDenoting(page, n) ==
  {k \in DOMAIN result.phoneNumbers :
     /\ result.phoneNumbers[k].pageNumber = page.pageNumber
     /\ NationalNumber(result.phoneNumbers[k].value) = n}

(* A mobile number stands once in the text, at position i, right after the *)
(* country code written as "+91 " or "(91) ".                              *)
PrefixedOnceAt(text, i) ==
  /\ i + 10 <= Len(text)
  /\ DigitsAt(text, i, 10)
  /\ CharAt(text, i) \in MobileLead
  /\ CharAt(text, i + 10) \notin WordChar
  /\ \/ (i >= 4 /\ substring(text, i - 4, i) = <<"+", "9", "1", " ">>)
     \/ (i >= 5 /\ substring(text, i - 5, i) = <<"(", "9", "1", ")", " ">>)
  /\ Cardinality(OccurrencesOf(text, substring(text, i, i + 10))) = 1

(* C21: no two PHONE detections of one page denote the same 10-digit       *)
(* national number, and a number written once with a country-code prefix   *)
(* has exactly one PHONE detection.                                        *)
C21_PhoneDeduplicated ==
  Returned =>
    \A page \in Pages :
      /\ \A k \in DOMAIN result.phoneNumbers :
           Cardinality(PhonesDenoting(page, NationalNumber(result.phoneNumbers[k].value))) <= 1
      /\ \A i \in 0..Len(fullTextOf(page)) :
           PrefixedOnceAt(fullTextOf(page), i)
           => Cardinality(PhonesDenoting(page, substring(fullTextOf(page), i, i + 10))) = 1

(* No two PHONE detections of one page have the same digits, the country   *)
(* code counted in.                                                        *)
PhoneDigitsDistinct ==
  Returned =>
    \A k, l \in DOMAIN result.phoneNumbers :
      (/\ k # l
       /\ result.phoneNumbers[k].pageNumber = result.phoneNumbers[l].pageNumber)
      => stripNonDigits(result.phoneNumbers[k].value) # stripNonDigits(result.phoneNumbers[l].value)

(* C22: no two PAN detections share the page number and the value; a value *)
(* found more than once on a page is kept once, with the highest           *)
(* confidence among the finds.                                             *)
C22_PanDeduplicated ==
  Returned =>
    \A k \in DOMAIN result.panNumbers :
      LET same == {l \in DOMAIN result.panNumbers :
                     /\ result.panNumbers[l].pageNumber = result.panNumbers[k].pageNumber
                     /\ result.panNumbers[l].value = result.panNumbers[k].value}
      IN /\ same = {k}
         /\ result.panNumbers[k].confidence = PanConfidence

(* A PAN value that stands once on each page it stands on is detected once *)
(* per page.                                                               *)
PanOncePerOccurrence ==
  Returned =>
    \A page \in Pages : \A k \in DOMAIN result.panNumbers :
      result.panNumbers[k].pageNumber = page.pageNumber
      => Cardinality(DetectionsOf(result.panNumbers, page.pageNumber, result.panNumbers[k].value))
           = Cardinality(OccurrencesOf(fullTextOf(page), result.panNumbers[k].value))

-----------------------------------------------------------------------------
(* Deduplication of the addresses.                                         *)

MaxAddressBlocks == 5   \* text blocks of a page with several PIN codes

(* Block texts around PIN codes whose windows differ: 560001, pin, and pin *)
(* followed by 192 and by 196 letters x                                    *)
OverlapTexts ==
  { <<"5","6","0","0","0","1">>,
    <<"p","i","n">>,
    <<"p","i","n">> \o Filler(192),
    <<"p","i","n">> \o Filler(196) }

(* The call is about to be made on one page of up to MaxAddressBlocks      *)
(* blocks, or on an OCR result of several pages.                           *)
InitOverlap ==
  \/ /\ \E n \in 0..MaxAddressBlocks : \E d \in layouts(OverlapTexts, 1, n) :
          ocrResult = OCRResult(d)
     /\ pc = "ready"
     /\ result = Null
     /\ history = <<>>
     /\ RedactionIdle
     /\ OcrIdle
     /\ AppIdle
  \/ Init(OverlapTexts)

SpecOverlap == InitOverlap /\ [][Next]_vars

(* The groups that the loops of deduplicateAddresses form from detection i *)
(* on: for each detection not yet used, the indices it marks used (itself  *)
(* included) and the detection pushed for them.                            *)
RECURSIVE dedupGroups(_, _, _)
dedupGroups(detections, i, used) ==
  IF i > Len(detections) THEN <<>>
  ELSE IF i \in used THEN dedupGroups(detections, i + 1, used)
  ELSE LET r == dedupInner(detections, i, i + 1, used \cup {i}, detections[i])
       IN <<[members |-> r.used \ used, bestDetection |-> r.bestDetection]>>
          \o dedupGroups(detections, i + 1, r.used)

AreaOf(bbox) == bbox.width * bbox.height

(* Area of the intersection of two boxes. *)
IntersectionArea(a, b) ==
  LET w == MinOf({a.x + a.width, b.x + b.width}) - MaxOf({a.x, b.x})
      h == MinOf({a.y + a.height, b.y + b.height}) - MaxOf({a.y, b.y})
  IN IF w > 0 /\ h > 0 THEN w * h ELSE 0

(* C23: after deduplication no two ADDRESS detections of one page have an  *)
(* intersection greater than half the area of either, and every page with  *)
(* a candidate keeps a detection of its own.                               *)
C23_NoOverlapLeft ==
  Returned =>
    /\ \A k, l \in DOMAIN result.addresses :
         (k # l /\ result.addresses[k].pageNumber = result.addresses[l].pageNumber)
         => LET a == result.addresses[k].bbox
                b == result.addresses[l].bbox
            IN /\ 2 * IntersectionArea(a, b) <= AreaOf(a)
               /\ 2 * IntersectionArea(a, b) <= AreaOf(b)
    /\ LET candidates == addressCandidates(ocrResult)
       IN \A c \in DOMAIN candidates :
            \E k \in DOMAIN result.addresses :
              result.addresses[k].pageNumber = candidates[c].pageNumber

(* Detections of different pages are never merged: every page with a       *)
(* candidate keeps a detection.                                            *)
PagesNotMerged ==
  Returned =>
    LET candidates == addressCandidates(ocrResult)
    IN \A c \in DOMAIN candidates :
         \E k \in DOMAIN result.addresses :
           result.addresses[k].pageNumber = candidates[c].pageNumber

(* C24: the detection kept for a group of merged candidates is a candidate *)
(* of the group with the largest area in it; the kept detections are the   *)
(* result, and every candidate belongs to a group.                         *)
C24_LargestKept ==
  Returned =>
    LET candidates == addressCandidates(ocrResult)
        groups == dedupGroups(candidates, 1, {})
    IN /\ \A g \in DOMAIN groups :
            /\ \E c \in groups[g].members : candidates[c] = groups[g].bestDetection
            /\ \A c \in groups[g].members :
                 AreaOf(groups[g].bestDetection.bbox) >= AreaOf(candidates[c].bbox)
       /\ result.addresses = [g \in DOMAIN groups |-> groups[g].bestDetection]
       /\ UNION {groups[g].members : g \in DOMAIN groups} = DOMAIN candidates

(* The output is a subset of the candidates and every candidate belongs to *)
(* one group; in a group of two the larger candidate is kept.              *)
SubsetKept ==
  Returned =>
    LET candidates == addressCandidates(ocrResult)
        groups == dedupGroups(candidates, 1, {})
    IN /\ \A k \in DOMAIN result.addresses :
            \E c \in DOMAIN candidates : candidates[c] = result.addresses[k]
       /\ result.addresses = [g \in DOMAIN groups |-> groups[g].bestDetection]
       /\ UNION {groups[g].members : g \in DOMAIN groups} = DOMAIN candidates
       /\ \A g, h \in DOMAIN groups : g # h => groups[g].members \cap groups[h].members = {}
       /\ \A g \in DOMAIN groups :
            Cardinality(groups[g].members) <= 2
            => \A c \in groups[g].members :
                 AreaOf(groups[g].bestDetection.bbox) >= AreaOf(candidates[c].bbox)

(* C28: the token of every 6-digit run that produced a candidate is        *)
(* enclosed by the box of some ADDRESS detection of its page.              *)
C28_CoverageKept ==
  Returned =>
    \A page \in Pages :
      \A i \in 0..(Len(fullTextOf(page)) - 6) :
        PinWithKeywordAt(fullTextOf(page), i)
        => \A b \in TokensOf(page, i, 6) :
             \E k \in DOMAIN result.addresses :
               /\ result.addresses[k].pageNumber = page.pageNumber
               /\ Encloses(result.addresses[k].bbox, page.textBlocks[b].bbox)

(* Before deduplication the token of every such run is enclosed by the box *)
(* of a candidate of its page.                                             *)
CandidatesCover ==
  Returned =>
    LET candidates == addressCandidates(ocrResult)
    IN \A page \in Pages :
         \A i \in 0..(Len(fullTextOf(page)) - 6) :
           PinWithKeywordAt(fullTextOf(page), i)
           => \A b \in TokensOf(page, i, 6) :
                \E c \in DOMAIN candidates :
                  /\ candidates[c].pageNumber = page.pageNumber
                  /\ Encloses(candidates[c].bbox, page.textBlocks[b].bbox)

-----------------------------------------------------------------------------
(* processingReducer under any sequence of actions.                        *)

MaxDispatches == 3      \* actions dispatched in a row
MaxTotalPages == 2      \* the totalPages and currentPage of an action

(* The actions of type ProcessingAction. *)
ProcessingActions ==
  {[type |-> t] : t \in {"START_UPLOAD", "START_EXTRACTING", "START_DETECTING",
                         "START_REDACTING", "RESET"}}
  \cup {[type |-> "UPDATE_UPLOAD_PROGRESS", progress |-> p] : p \in {0, 50, 100}}
  \cup {[type |-> t, totalPages |-> n] :
          t \in {"START_EXTRACTING", "START_REDACTING"}, n \in 0..MaxTotalPages}
  \cup {[type |-> t, currentPage |-> c, totalPages |-> n] :
          t \in {"UPDATE_EXTRACTING_PROGRESS", "UPDATE_REDACTING_PROGRESS"},
          c \in 1..MaxTotalPages, n \in 1..MaxTotalPages}
  \cup {[type |-> "COMPLETE",
         result |-> [blob |-> "blob", mimeType |-> "image/png", previewUrl |-> "blob:1"],
         detections |-> EmptyResult]}
  \cup {[type |-> "ERROR", error |-> "OCR extraction failed"]}

(* dispatch(action), for any action. *)
dispatchAction ==
  /\ hpc = "idle"
  /\ Len(statuses) < MaxDispatches
  /\ \E action \in ProcessingActions : dispatch(<<action>>)
  /\ UNCHANGED <<originalFile, displayed, hpc, ocrVars, detectorVars, redactionVars, browserVars>>

NextReducer == dispatchAction

InitReducer == DetectorIdle /\ RedactionIdle /\ OcrIdle /\ AppIdle

SpecReducer == InitReducer /\ [][NextReducer]_vars

UpdateActions ==
  {a \in ProcessingActions :
     a.type \in {"UPDATE_UPLOAD_PROGRESS", "UPDATE_EXTRACTING_PROGRESS",
                 "UPDATE_REDACTING_PROGRESS"}}

(* The stage whose progress an UPDATE action reports. *)
StageOf(action) ==
  CASE action.type = "UPDATE_UPLOAD_PROGRESS" -> "uploading"
    [] action.type = "UPDATE_EXTRACTING_PROGRESS" -> "extracting"
    [] action.type = "UPDATE_REDACTING_PROGRESS" -> "redacting"

(* An UPDATE action never changes the status and leaves a state of another *)
(* stage as it is.                                                         *)
UpdateKeepsStatus ==
  \A a \in UpdateActions :
    /\ processingReducer(processingState, a).status = processingState.status
    /\ processingState.status # StageOf(a)
       => processingReducer(processingState, a) = processingState

(* The status after a dispatch is the status before it, the next stage,    *)
(* "error" or "idle".                                                      *)
StageByStage ==
  \/ processingState'.status = processingState.status
  \/ processingState'.status \in {"error", "idle"}
  \/ \E k \in 1..(Len(StatusOrder) - 1) :
       /\ processingState.status = (IF k = 1 THEN "idle" ELSE StatusOrder[k - 1])
       /\ processingState'.status = StatusOrder[k]
  \/ processingState.status = "redacting" /\ processingState'.status = "complete"

(* C25: under every sequence of actions from idle the status moves only    *)
(* to the next stage of idle, uploading, extracting, detecting, redacting,  *)
(* complete (or to error, or to idle), complete is entered from redacting   *)
(* only, and the UPDATE actions never change the status and leave the      *)
(* state of another stage unchanged.                                       *)
C25_StageByStage == [][StageByStage]_vars /\ []UpdateKeepsStatus

(* The UPDATE actions alone. *)
UpdateActionsHarmless == []UpdateKeepsStatus

-----------------------------------------------------------------------------
(* The coordinate spaces of extraction and redaction for a PDF.            *)

(* The run on a PDF is complete. *)
PdfComplete == UploadedPdf /\ hpc = "done" /\ processingState.status = "complete"

(* The detections of the completed run, in the order applyRedactions takes *)
(* them.                                                                   *)
CompleteDetections == allDetections(processingState.detections)

(* The rectangles painted on page p for detection d. *)
PaintedFor(d, p) ==
  {r \in {processingState.result.blob.pages[p].rectangles[k] :
            k \in DOMAIN processingState.result.blob.pages[p].rectangles} :
     r = pdfRectangle(d, processingState.result.blob.pages[p].height)}

(* Rectangle r, in the space of a page H high (origin bottom-left, y up),  *)
(* covers the place on the page of the token that the page picture, drawn  *)
(* ViewportScale times as large (origin top-left, y down), shows at bbox.   *)
CoversOnPage(r, bbox, H) ==
  /\ ViewportScale * r.x <= bbox.x
  /\ ViewportScale * (r.x + r.width) >= bbox.x + bbox.width
  /\ ViewportScale * r.y <= ViewportScale * H - (bbox.y + bbox.height)
  /\ ViewportScale * (r.y + r.height) >= ViewportScale * H - bbox.y

(* C26: for a PDF the width and height that extraction reports for page p  *)
(* are the size redactPDF uses for that page, and the rectangle painted    *)
(* for a detection covers, on the page, the tokens its box encloses.       *)
C26_SameCoordinateSpace ==
  PdfComplete =>
    /\ \A k \in DOMAIN ocrResult.pages :
         LET page == ocrResult.pages[k]
         IN /\ page.width = processingState.result.blob.pages[page.pageNumber].width
            /\ page.height = processingState.result.blob.pages[page.pageNumber].height
    /\ \A i \in DOMAIN CompleteDetections : \A k \in DOMAIN ocrResult.pages :
         LET d == CompleteDetections[i]
             page == ocrResult.pages[k]
         IN page.pageNumber = d.pageNumber
            => \A b \in DOMAIN page.textBlocks :
                 Encloses(d.bbox, page.textBlocks[b].bbox)
                 => \E r \in PaintedFor(d, page.pageNumber) :
                      CoversOnPage(r, page.textBlocks[b].bbox,
                                   processingState.result.blob.pages[page.pageNumber].height)

(* Every detection of the completed run has its rectangle on its page, at  *)
(* the numbers of its box, and the page keeps the size of the source.      *)
PaintedAtBoxNumbers ==
  PdfComplete =>
    /\ \A i \in DOMAIN CompleteDetections :
         PaintedFor(CompleteDetections[i], CompleteDetections[i].pageNumber) # {}
    /\ \A p \in DOMAIN processingState.result.blob.pages :
         /\ processingState.result.blob.pages[p].width = originalFile.content.pages[p].width
         /\ processingState.result.blob.pages[p].height = originalFile.content.pages[p].height

-----------------------------------------------------------------------------
(* Coverage of repeated phone numbers.                                     *)

(* Every token that carries part of [i, i+n) lies in the box of some PHONE *)
(* detection of the page.                                                  *)
PhoneCovered(page, i, n) ==
  \A b \in TokensOf(page, i, n) :
    \E k \in DOMAIN result.phoneNumbers :
      /\ result.phoneNumbers[k].pageNumber = page.pageNumber
      /\ Encloses(result.phoneNumbers[k].bbox, page.textBlocks[b].bbox)

StandsOnce(text, i, f) ==
  LET digits == stripNonDigits(substring(text, i, i + GroupsLen(f.sizes, f.sep)))
      all == stripNonDigits(text)
  IN /\ Cardinality({j \in 0..(Len(all) - 10) : substring(all, j, j + 10) = digits}) = 1
     /\ substring(digits, 0, 2) # <<"9", "1">>

(* A mobile number that stands once on its page is covered. *)
SingleOccurrenceCovered ==
  Returned =>
    \A page \in Pages : \A f \in MobileForms :
      \A i \in 0..(Len(fullTextOf(page)) - GroupsLen(f.sizes, f.sep)) :
        (MobileAt(fullTextOf(page), i, f) /\ StandsOnce(fullTextOf(page), i, f))
        => PhoneCovered(page, i, GroupsLen(f.sizes, f.sep))

-----------------------------------------------------------------------------
(* Matches and their geometry.                                             *)

(* Block texts around identifiers that begin in a later token or run over  *)
(* several tokens: 1234, 123456789012, ABCDE1234F, 9876543210, +91         *)
MatchTexts ==
  { <<"1","2","3","4">>,
    <<"1","2","3","4","5","6","7","8","9","0","1","2">>,
    <<"A","B","C","D","E","1","2","3","4","F">>,
    <<"9","8","7","6","5","4","3","2","1","0">>,
    <<"+","9","1">> }

InitMatches == Init(MatchTexts)
SpecMatches == InitMatches /\ [][Next]_vars

(* The matches of the patterns in the text, pattern after pattern. *)
MatchesOf(text, patterns) ==
  Flatten([a \in DOMAIN patterns |-> matchAll(text, patterns[a])])

(* The phone matches that are accepted: valid mobile numbers, each the     *)
(* first match with its digits.                                            *)
AcceptedPhoneMatches(text) ==
  LET matches == MatchesOf(text, phonePatterns)
      valid(k) == /\ Len(NationalNumber(matches[k].text)) = 10
                  /\ NationalNumber(matches[k].text)[1] \in MobileLead
  IN {k \in DOMAIN matches :
        /\ valid(k)
        /\ \A j \in 1..(k - 1) :
             stripNonDigits(matches[j].text) # stripNonDigits(matches[k].text)}

(* The detections of the list that are on the page. *)
OnPage(list, page) == {k \in DOMAIN list : list[k].pageNumber = page.pageNumber}

(* The match has a box, and it is the box around the tokens whose range    *)
(* meets the range of the match, of which there is one at least.           *)
HasGeometry(page, match) ==
  LET S == Intersecting(page, match.index, match.index + Len(match.text))
      bbox == findBoundingBoxForMatch(match.text, match.index, page.textBlocks, fullTextOf(page))
  IN /\ S # {}
     /\ bbox # Null
     /\ bbox = TightBox(page, S)

(* C29: every match of the Aadhaar, PAN and phone patterns in the text of  *)
(* a page meets the range of a token and gets a box from                   *)
(* findBoundingBoxForMatch, and each list has as many detections of the    *)
(* page as the page has accepted matches.                                  *)
C29_NoMatchDropped ==
  Returned =>
    \A page \in Pages :
      LET text == fullTextOf(page)
          all == MatchesOf(text, aadhaarPatterns \o <<panPattern>> \o phonePatterns)
      IN /\ \A k \in DOMAIN all : HasGeometry(page, all[k])
         /\ Cardinality(OnPage(result.aadhaarNumbers, page)) = Len(MatchesOf(text, aadhaarPatterns))
         /\ Cardinality(OnPage(result.panNumbers, page)) = Len(MatchesOf(text, <<panPattern>>))
         /\ Cardinality(OnPage(result.phoneNumbers, page)) = Cardinality(AcceptedPhoneMatches(text))

(* A page of three tokens gave a PAN detection for a match that begins in  *)
(* the third token and a PHONE detection for a match that runs over the    *)
(* first two.                                                              *)
C29_Witness ==
  /\ Returned
  /\ \E page \in Pages :
       /\ Len(page.textBlocks) = 3
       /\ \E k \in OnPage(result.panNumbers, page) :
            result.panNumbers[k].bbox = page.textBlocks[3].bbox
       /\ \E k \in OnPage(result.phoneNumbers, page) :
            result.phoneNumbers[k].bbox = TightBox(page, {1, 2})

(***************************************************************************)
(* Download and reset of the redacted document                             *)
(*                                                                         *)
(* The page holds a completed run: processingState.result carries the      *)
(* object URL that URL.createObjectURL gave for the redacted blob.  The    *)
(* user clicks Download any number of times and may reset; the callbacks   *)
(* that downloadDocument schedules with setTimeout run later, in order.    *)
(***************************************************************************)
MaxDownloads == 3

(* originalFilename.lastIndexOf('.'), counted from 0, -1 when absent. *)
lastIndexOf(originalFilename, ch) ==
  LET at == {k \in 1..Len(originalFilename) : originalFilename[k] = ch}
  IN IF at = {} THEN -1 ELSE (CHOOSE k \in at : \A j \in at : j <= k) - 1

_redacted == <<"_", "r", "e", "d", "a", "c", "t", "e", "d">>

generateRedactedFilename(originalFilename) ==
  LET lastDotIndex == lastIndexOf(originalFilename, ".")
      name == SubSeq(originalFilename, 1, lastDotIndex)
      extension == SubSeq(originalFilename, lastDotIndex + 1, Len(originalFilename))
  IN IF lastDotIndex = -1 THEN originalFilename \o _redacted
     ELSE name \o _redacted \o extension

(* What a click on a link with this href saves: the blob behind an object  *)
(* URL that is still valid, nothing (a failed download, written "") once   *)
(* the URL has been revoked.                                               *)
linkClick(href, filename, blob) ==
  [filename |-> filename, content |-> IF href \in objectUrls THEN blob ELSE ""]

(* downloadDocument(redactedDoc, originalFilename): the link is clicked    *)
(* and the revocation of redactedDoc.previewUrl is scheduled.              *)
downloadDocument(redactedDoc, originalFilename) ==
  /\ downloads' = Append(downloads,
                         linkClick(redactedDoc.previewUrl,
                                   generateRedactedFilename(originalFilename),
                                   redactedDoc.blob))
  /\ timeouts' = Append(timeouts, redactedDoc.previewUrl)

(* The user clicks Download. *)
handleDownload ==
  /\ Len(downloads) < MaxDownloads
  /\ IF processingState.status = "complete" /\ originalFile # Null
     THEN downloadDocument(processingState.result, originalFile.name)
     ELSE UNCHANGED <<downloads, timeouts>>
  /\ UNCHANGED <<objectUrls, revocations, appVars, ocrVars, detectorVars, redactionVars>>

(* The callback of setTimeout(..., 100) runs: URL.revokeObjectURL. *)
timeoutFires ==
  /\ timeouts # <<>>
  /\ objectUrls' = objectUrls \ {Head(timeouts)}
  /\ revocations' = Append(revocations, Head(timeouts))
  /\ timeouts' = Tail(timeouts)
  /\ UNCHANGED <<downloads, appVars, ocrVars, detectorVars, redactionVars>>

(* The user resets to upload a new document. *)
handleReset ==
  /\ processingState.status # "idle"
  /\ IF processingState.status = "complete"
     THEN /\ objectUrls' = objectUrls \ {processingState.result.previewUrl}
          /\ revocations' = Append(revocations, processingState.result.previewUrl)
     ELSE UNCHANGED <<objectUrls, revocations>>
  /\ originalFile' = Null
  /\ dispatch(<<[type |-> "RESET"]>>)
  /\ UNCHANGED <<timeouts, downloads, displayed, hpc, ocrVars, detectorVars, redactionVars>>

NextDownload ==
  \/ handleDownload
  \/ timeoutFires
  \/ handleReset

(* The files of the completed runs: their names and the type of the        *)
(* redacted document.                                                      *)
DownloadedFiles ==
  {[name |-> <<"a", ".", "p", "d", "f">>, type |-> "application/pdf"],
   [name |-> <<"a", ".", "b", ".", "p", "n", "g">>, type |-> "image/png"],
   [name |-> <<"s", "c", "a", "n">>, type |-> "image/jpeg"],
   [name |-> <<".", "j", "p", "g">>, type |-> "image/jpeg"]}

(* After a run of handleFileAccepted that ended with COMPLETE. *)
InitDownload ==
  /\ DetectorIdle /\ RedactionIdle /\ OcrIdle
  /\ originalFile \in DownloadedFiles
  /\ hpc = "done"
  /\ processingState =
       [status |-> "complete",
        result |-> [blob |-> "blob", mimeType |-> originalFile.type,
                    previewUrl |-> "blob:1"],
        detections |-> EmptyResult]
  /\ statuses = <<"complete">>
  /\ displayed = Null
  /\ objectUrls = {"blob:1"}
  /\ timeouts = <<>> /\ downloads = <<>> /\ revocations = <<>>

SpecDownload == InitDownload /\ [][NextDownload]_vars

(* The preview renders: the state is complete and its URL is valid. *)
PreviewRenders ==
  processingState.status = "complete"
    => processingState.result.previewUrl \in objectUrls

(* Every click has saved the redacted blob. *)
DownloadsDeliver == \A k \in DOMAIN downloads : downloads[k].content = "blob"

(* A URL is revoked only by the step that resets a complete state, and     *)
(* that is its only revocation.                                            *)
RevokedOnReset ==
  revocations' # revocations
    => /\ processingState.status = "complete"
       /\ processingState'.status = "idle"
       /\ revocations' = <<processingState.result.previewUrl>>

(* C30: while the state is 'complete' the previewUrl of the redacted       *)
(* document stays valid for any sequence of Download clicks, so that the   *)
(* preview renders and every download delivers the same artifact; the URL  *)
(* is revoked exactly once, when the user resets.                          *)
C30_PreviewUrlValid ==
  /\ [](PreviewRenders /\ DownloadsDeliver)
  /\ [][RevokedOnReset]_vars

(* What does hold: the first click delivers the blob under the name with   *)
(* the suffix, nothing but the previewUrl is ever revoked, and after a     *)
(* reset the URL is not valid any more.                                    *)
FirstDownloadDelivers ==
  /\ downloads # <<>> => downloads[1].content = "blob"
  /\ \A k \in DOMAIN downloads :
       downloads[k].filename \in
         {<<"a">> \o _redacted \o <<".", "p", "d", "f">>,
          <<"a", ".", "b">> \o _redacted \o <<".", "p", "n", "g">>,
          <<"s", "c", "a", "n">> \o _redacted,
          _redacted \o <<".", "j", "p", "g">>}
  /\ \A k \in DOMAIN revocations : revocations[k] = "blob:1"
  /\ processingState.status = "idle" => objectUrls = {}

(* A second click after the first callback has run saves nothing. *)
SecondDownloadFails ==
  /\ Len(downloads) = 2
  /\ downloads[2].content = ""
  /\ processingState.status = "complete"

=============================================================================
